---- MODULE Spec2Model ----
(***************************************************************************)
(* Gap repair and outlier rejection of swmfpy.                             *)
(*                                                                         *)
(*   clean           omni2swmf.py    repair of sentinel runs of one column *)
(*   read_omni_csv   swmfpy/io.py    threshold cleaning, coarse filtering  *)
(*                                   and fill of a table                   *)
(*                                                                         *)
(* Numbers are exact rationals [n |-> numerator, d |-> denominator] in     *)
(* lowest terms, so that np.linspace and DataFrame.interpolate are         *)
(* computed, not approximated; floating-point rounding is not modelled.    *)
(* NaN is the record [n |-> 0, d |-> 0].                                   *)
(***************************************************************************)
EXTENDS Integers, Sequences, FiniteSets, TLC

VARIABLES
    \* ---- clean(data), omni2swmf.py ----
    C,              \* the column as the caller passed it (never changes)
    heap,           \* array objects: reference -> contents (index 0..n-1)
    data,           \* clean's parameter: a reference into heap
    prevdata, nextdata, prevlocation, nextlocation, baddata,
    loc,            \* the loop variable of clean
    pc,             \* "start", "loop", "done", "raised"
    ret,            \* the reference clean returned (0: none yet)
    raised,         \* the exception clean raised ("" : none)
    \* ---- read_omni_csv(filename, filtering, **kwargs), swmfpy/io.py ----
    csv,            \* the table as read from the file: column name -> column
    frame,          \* the DataFrame `data`
    kw_clean,       \* kwargs.get('clean', True)
    filtering,      \* the filtering argument
    coarseness,     \* kwargs.get('coarseness', 3)
    before,         \* the DataFrame as coarse filtering found it
    out,            \* the DataFrame read_omni_csv returned
    rpc,            \* "read", "cleaned", "filtered", "returned"
    \* ---- main(), cleanomnidata.py ----
    nargs,          \* the number of command-line arguments after the program name
    in_ok,          \* read_data(args[1]) and open(args[1], 'r') succeed
    out_ok,         \* open(args[2], 'w') succeeds
    disk0,          \* the output file on disk when the program starts
    disk,           \* the output file on disk
    cdata,          \* the structured array `data`: field -> column
    cli_k,          \* the number of columns cleaned so far
    cli_pc,         \* "start", "input", "clean", "write", "exit"
    exit_status,    \* the exit status of the process (-1: still running)
    stdout,         \* the lines printed
    uncaught,       \* the exception that ended the process ("" : none)
    \* ---- read_command, replace_command, paramin.py ----
    pfile,          \* the lines of the PARAM.in file, each the sequence of its words
    p_command,      \* read_command: the argument `command`
    p_kwargs,       \* read_command: the keyword arguments
    p_parameters,   \* replace_command: the argument `parameters`
    p_output,       \* replace_command: output_file is not None
    p_written,      \* the lines written to the output file
    p_ret,          \* the list the call returned
    p_raised,       \* the exception the call raised ("" : none)
    p_pc,           \* "ready", "read", "replaced"
    \* ---- two calls of clean run side by side ----
    par_in,         \* call -> the column it was given, as it was at the call
    par_heap,       \* reference -> array: the two columns
    par_frame,      \* frame -> the locals of clean: data, prevdata, ..., loc
    par_pc,         \* call -> "call", "loop", "done", "raised"
    par_ret,        \* call -> the reference it returned (0: none)
    par_last,       \* the call that took the last step (0: none)
    par_mixed,      \* a call has stepped while the other was inside its loop
    \* ---- limit_growth, limit_changes, interp_nans, tools.py ----
    t_vector,       \* the array given as first argument: [shape, data]
    t_call,         \* the call made: the function and its other arguments
    t_after,        \* the array given, as the call leaves it
    t_ret,          \* the array returned
    t_raised,       \* the exception the call raised ("" : none)
    t_pc,           \* "ready", "done"
    \* ---- get_omni_data, web.py ----
    o_from,         \* time_from
    o_to,           \* time_to
    o_date,         \* the date the rrule loop stands on
    o_fetched,      \* the suffixes of the files asked of the server, in order
    o_data,         \* return_data
    o_ret,          \* the dictionary returned
    o_raised,       \* the exception the call raised ("" : none)
    o_pc,           \* "loop", "returned", "raised"
    \* ---- download_magnetogram_adapt, web.py ----
    a_time,         \* time
    a_map_type,     \* map_type
    a_server,       \* the year directory of the server: [dir, names]
    a_filenames,    \* filenames, the answer of ftp.nlst
    a_idx,          \* the number of files the loop has handled
    a_local,        \* the files in download_dir: name -> content
    a_ret,          \* the list returned
    a_raised,       \* the exception the call raised ("" : none)
    a_pc            \* "call", "files", "returned", "raised"

cleanVars == <<C, heap, data, prevdata, nextdata, prevlocation, nextlocation,
               baddata, loc, pc, ret, raised>>

csvVars == <<csv, frame, kw_clean, filtering, coarseness, before, out, rpc>>

cliVars == <<nargs, in_ok, out_ok, disk0, disk, cdata, cli_k, cli_pc,
             exit_status, stdout, uncaught>>

prmVars == <<pfile, p_command, p_kwargs, p_parameters, p_output, p_written,
             p_ret, p_raised, p_pc>>

parVars == <<par_in, par_heap, par_frame, par_pc, par_ret, par_last, par_mixed>>

toolsVars == <<t_vector, t_call, t_after, t_ret, t_raised, t_pc>>

omniVars == <<o_from, o_to, o_date, o_fetched, o_data, o_ret, o_raised, o_pc>>

adaptVars == <<a_time, a_map_type, a_server, a_filenames, a_idx, a_local, a_ret,
               a_raised, a_pc>>

webVars == <<omniVars, adaptVars>>

vars == <<cleanVars, csvVars, cliVars, prmVars, parVars, toolsVars, webVars>>

\* What the steps of clean, of read_omni_csv and of main leave alone.
notClean == <<csvVars, cliVars, prmVars, parVars, toolsVars, webVars>>
notCsv == <<cleanVars, cliVars, prmVars, parVars, toolsVars, webVars>>
notCli == <<cleanVars, csvVars, prmVars, parVars, toolsVars, webVars>>
notPrm == <<cleanVars, csvVars, cliVars, parVars, toolsVars, webVars>>
notPar == <<cleanVars, csvVars, cliVars, prmVars, toolsVars, webVars>>
notTools == <<cleanVars, csvVars, cliVars, prmVars, parVars, webVars>>
notOmni == <<cleanVars, csvVars, cliVars, prmVars, parVars, toolsVars, adaptVars>>
notAdapt == <<cleanVars, csvVars, cliVars, prmVars, parVars, toolsVars, omniVars>>

-----------------------------------------------------------------------------
(* Bounds *)

MaxLen == 5

MaxRows == 3

MaxCliRows == 3

MaxLines == 4

MaxParLen == 3

MaxVec == 3

NumYears == 2

-----------------------------------------------------------------------------
(* Exact rational arithmetic *)

Abs(i) == IF i < 0 THEN -i ELSE i

RECURSIVE GCD(_, _)
GCD(a, b) == IF b = 0 THEN a ELSE GCD(b, a % b)

Norm(num, den) ==
    LET g == GCD(Abs(num), den)
    IN  [n |-> num \div g, d |-> den \div g]

Rat(i) == [n |-> i, d |-> 1]

NaN == [n |-> 0, d |-> 0]

IsNaN(x) == x.d = 0

Add(x, y) == Norm(x.n * y.d + y.n * x.d, x.d * y.d)

Sub(x, y) == Norm(x.n * y.d - y.n * x.d, x.d * y.d)

MulInt(k, x) == Norm(k * x.n, x.d)

DivInt(x, k) == Norm(x.n, x.d * k)

Less(x, y) == x.n * y.d < y.n * x.d

-----------------------------------------------------------------------------
(* clean, omni2swmf.py *)

\* The four OMNI fill values: 9999.99, 99999.9, 9999999., 999.99
Fill9999_99 == Norm(999999, 100)
Fill99999_9 == Norm(999999, 10)
Fill9999999 == Rat(9999999)
Fill999_99  == Norm(99999, 100)

Sentinels == {Fill9999_99, Fill99999_9, Fill9999999, Fill999_99}

\* The test of line 162; the test of line 166 is its negation.
IsSentinel(x) ==
    x = Fill9999_99 \/ x = Fill99999_9 \/ x = Fill9999999 \/ x = Fill999_99

size(arr) == Cardinality(DOMAIN arr)

\* A variant that spaces the points as if the end point were excluded.
linspaceNoEndpoint(start, stop, num) ==
    [k \in 0..(num - 1) |-> Add(start, MulInt(k, DivInt(Sub(stop, start), num)))]

\* np.linspace(start, stop, num): step = (stop-start)/(num-1),
\* y[k] = start + k*step, and y[num-1] = stop.
linspace(start, stop, num) ==
    [k \in 0..(num - 1) |->
        IF k = num - 1 THEN stop
        ELSE Add(start, MulInt(k, DivInt(Sub(stop, start), num - 1)))]

\* A variant that splices rep into a list in place of arr[lo:hi-1], one
\* element short of the slice the caller names.
SliceAssignSplice(arr, lo, hi, rep) ==
    LET m == size(rep)
        n == size(arr) + m - (hi - 1 - lo)
    IN  [i \in 0..(n - 1) |->
            IF i < lo THEN arr[i]
            ELSE IF i < lo + m THEN rep[i - lo]
            ELSE arr[i - m + (hi - 1 - lo)]]

\* A variant that writes rep one index early, over arr[lo-1:hi-1].
SliceAssignEarly(arr, lo, hi, rep) ==
    [i \in DOMAIN arr |->
        IF lo - 1 <= i /\ i < hi - 1 THEN rep[i - lo + 1] ELSE arr[i]]

\* arr[lo:hi] = rep
SliceAssign(arr, lo, hi, rep) ==
    [i \in DOMAIN arr |-> IF lo <= i /\ i < hi THEN rep[i - lo] ELSE arr[i]]

\* The if / elif of lines 162-172 on the locals s (s.arr: the array's contents).
ScanBranch(s, l) ==
    IF IsSentinel(s.arr[l]) /\ ~s.baddata
    THEN [s EXCEPT !.prevlocation = l - 1,
                   !.prevdata = s.arr[l - 1],
                   !.baddata = TRUE]
    ELSE IF ~IsSentinel(s.arr[l]) /\ s.baddata
    THEN LET length == l - s.prevlocation
             replacedata == linspace(s.prevdata, s.arr[l], length + 1)
         IN  [s EXCEPT !.nextlocation = l,
                       !.nextdata = s.arr[l],
                       !.baddata = FALSE,
                       !.arr = SliceAssign(s.arr, s.prevlocation, l + 1, replacedata)]
    ELSE s

\* A variant in which the end-of-column test is one more elif of the chain.
TailBranchElif(s0, s, l) ==
    IF s = s0 /\ l = size(s.arr) - 1 /\ s.baddata
    THEN LET length == l - s.prevlocation
             replacedata == linspace(s.prevdata, s.prevdata, length + 1)
         IN  [s EXCEPT !.nextlocation = l,
                       !.nextdata = s.prevdata,
                       !.baddata = FALSE,
                       !.arr = SliceAssign(s.arr, s.prevlocation, l + 1, replacedata)]
    ELSE s

\* The if of lines 173-179, run after the if / elif (s0: the locals before it,
\* s: the locals after it).
TailBranch(s0, s, l) ==
    IF l = size(s.arr) - 1 /\ s.baddata
    THEN LET length == l - s.prevlocation
             replacedata == linspace(s.prevdata, s.prevdata, length + 1)
         IN  [s EXCEPT !.nextlocation = l,
                       !.nextdata = s.prevdata,
                       !.baddata = FALSE,
                       !.arr = SliceAssign(s.arr, s.prevlocation, l + 1, replacedata)]
    ELSE s

\* One iteration of the for loop, lines 161-179.
CleanIter(s, l) == TailBranch(s, ScanBranch(s, l), l)

CallerRef == 1

\* A variant that binds the parameter to a fresh copy of the argument.
BindCopy(h, arg) == [heap |-> h @@ ((arg + 1) :> h[arg]), ref |-> arg + 1]

\* def clean(data): the parameter names the caller's array itself.
BindParam(h, arg) == [heap |-> h, ref |-> arg]

\* Lines 148-160; data[0] or data[1] raises IndexError on a column of
\* fewer than two samples.
CleanStart ==
    /\ pc = "start"
    /\ LET b == BindParam(heap, CallerRef)
           arr == b.heap[b.ref]
       IN  /\ heap' = b.heap
           /\ data' = b.ref
           /\ IF size(arr) < 2
              THEN /\ pc' = "raised"
                   /\ raised' = "IndexError"
                   /\ UNCHANGED <<prevdata, nextdata, prevlocation, nextlocation,
                                  baddata, loc>>
              ELSE /\ prevdata' = arr[0]
                   /\ nextdata' = arr[1]
                   /\ prevlocation' = 0
                   /\ nextlocation' = 1
                   /\ baddata' = FALSE
                   /\ loc' = 1
                   /\ pc' = "loop"
                   /\ UNCHANGED raised
    /\ UNCHANGED <<C, ret>>
    /\ UNCHANGED notClean

\* for loc in range(1, np.size(data)): one iteration
CleanLoop ==
    /\ pc = "loop"
    /\ loc < size(heap[data])
    /\ LET s == [arr |-> heap[data], prevdata |-> prevdata, nextdata |-> nextdata,
                 prevlocation |-> prevlocation, nextlocation |-> nextlocation,
                 baddata |-> baddata]
           t == CleanIter(s, loc)
       IN  /\ heap' = [heap EXCEPT ![data] = t.arr]
           /\ prevdata' = t.prevdata
           /\ nextdata' = t.nextdata
           /\ prevlocation' = t.prevlocation
           /\ nextlocation' = t.nextlocation
           /\ baddata' = t.baddata
    /\ loc' = loc + 1
    /\ UNCHANGED <<C, data, pc, ret, raised>>
    /\ UNCHANGED notClean

\* return data
CleanReturn ==
    /\ pc = "loop"
    /\ loc = size(heap[data])
    /\ ret' = data
    /\ pc' = "done"
    /\ UNCHANGED <<C, heap, data, prevdata, nextdata, prevlocation, nextlocation,
                   baddata, loc, raised>>
    /\ UNCHANGED notClean

\* The values a column is drawn from: the four fill values and three measured
\* values.
Measured == {Rat(-2), Rat(1), Rat(4)}

ColumnVals == Sentinels \cup Measured

Columns == UNION {[0..(n - 1) -> ColumnVals] : n \in 0..MaxLen}

\* No call of clean is in progress.
CleanIdle ==
    /\ C = <<>>
    /\ heap = (CallerRef :> <<>>)
    /\ data = 0
    /\ prevdata = NaN
    /\ nextdata = NaN
    /\ prevlocation = 0
    /\ nextlocation = 0
    /\ baddata = FALSE
    /\ loc = 0
    /\ pc = "idle"
    /\ ret = 0
    /\ raised = ""

\* No call of read_omni_csv is in progress.
CsvIdle ==
    /\ csv = <<>>
    /\ frame = <<>>
    /\ kw_clean = TRUE
    /\ filtering = FALSE
    /\ coarseness = 3
    /\ before = <<>>
    /\ out = <<>>
    /\ rpc = "idle"

\* No run of cleanomnidata.py is in progress.
CliIdle ==
    /\ nargs = 0
    /\ in_ok = FALSE
    /\ out_ok = FALSE
    /\ disk0 = [exists |-> FALSE, lines |-> <<>>]
    /\ disk = disk0
    /\ cdata = <<>>
    /\ cli_k = 0
    /\ cli_pc = "idle"
    /\ exit_status = -1
    /\ stdout = <<>>
    /\ uncaught = ""

\* No call of read_command or replace_command is in progress.
PrmIdle ==
    /\ pfile = <<>>
    /\ p_command = <<>>
    /\ p_kwargs = <<>>
    /\ p_parameters = <<>>
    /\ p_output = FALSE
    /\ p_written = <<>>
    /\ p_ret = <<>>
    /\ p_raised = ""
    /\ p_pc = "idle"

\* No call of a function of tools.py is in progress.
ToolsIdle ==
    /\ t_vector = <<>>
    /\ t_call = <<>>
    /\ t_after = <<>>
    /\ t_ret = <<>>
    /\ t_raised = ""
    /\ t_pc = "idle"

\* No call of get_omni_data is in progress.
OmniIdle ==
    /\ o_from = <<>>
    /\ o_to = <<>>
    /\ o_date = <<>>
    /\ o_fetched = <<>>
    /\ o_data = <<>>
    /\ o_ret = <<>>
    /\ o_raised = ""
    /\ o_pc = "idle"

\* No call of download_magnetogram_adapt is in progress.
AdaptIdle ==
    /\ a_time = <<>>
    /\ a_map_type = ""
    /\ a_server = <<>>
    /\ a_filenames = <<>>
    /\ a_idx = 0
    /\ a_local = <<>>
    /\ a_ret = <<>>
    /\ a_raised = ""
    /\ a_pc = "idle"

\* Nothing of tools.py or web.py is in progress.
ToolsWebIdle == ToolsIdle /\ OmniIdle /\ AdaptIdle

\* No two calls of clean run side by side.
ParIdle ==
    /\ par_in = <<>>
    /\ par_heap = <<>>
    /\ par_frame = <<>>
    /\ par_pc = <<>>
    /\ par_ret = <<>>
    /\ par_last = 0
    /\ par_mixed = FALSE

Init ==
    /\ C \in Columns
    /\ heap = (CallerRef :> C)
    /\ data = 0
    /\ prevdata = NaN
    /\ nextdata = NaN
    /\ prevlocation = 0
    /\ nextlocation = 0
    /\ baddata = FALSE
    /\ loc = 0
    /\ pc = "start"
    /\ ret = 0
    /\ raised = ""
    /\ CsvIdle
    /\ CliIdle
    /\ PrmIdle
    /\ ParIdle
    /\ ToolsWebIdle

Next == CleanStart \/ CleanLoop \/ CleanReturn

Spec == Init /\ [][Next]_vars

-----------------------------------------------------------------------------
(* read_omni_csv, swmfpy/io.py (swmfpy.py holds the same code) *)

\* colnames[1:], line 76-78
Fields == {"Bx [nT]", "By [nT]", "Bz [nT]", "Vx [km/s]", "Vy [km/s]",
           "Vz [km/s]", "Rho [n/cc]", "T [K]"}

\* The bound each column is compared with, lines 87-94.
Limit(f) ==
    CASE f \in {"Bx [nT]", "By [nT]", "Bz [nT]"} -> 80
      [] f = "Rho [n/cc]" -> 500
      [] f = "Vx [km/s]" -> 2000
      [] f \in {"Vy [km/s]", "Vz [km/s]"} -> 1000
      [] f = "T [K]" -> 10000000

\* The columns compared through .abs(), lines 87-89 and 91-93.
UsesAbs(f) == f \notin {"Rho [n/cc]", "T [K]"}

AbsRat(x) == [n |-> Abs(x.n), d |-> x.d]

\* A variant whose comparison admits the bound itself.
KeptByCleanInclusive(f, x) ==
    /\ ~IsNaN(x)
    /\ ~Less(Rat(Limit(f)), IF UsesAbs(f) THEN AbsRat(x) ELSE x)

\* The mask of lines 87-94: a comparison with NaN is False.
KeptByClean(f, x) ==
    /\ ~IsNaN(x)
    /\ Less(IF UsesAbs(f) THEN AbsRat(x) ELSE x, Rat(Limit(f)))

\* data[col] = data[col][mask]: the rows the mask drops become NaN.
CleanBadData(tab) ==
    [f \in DOMAIN tab |->
        [i \in DOMAIN tab[f] |-> IF KeptByClean(f, tab[f][i]) THEN tab[f][i] ELSE NaN]]

ValidIdx(col) == {i \in DOMAIN col : ~IsNaN(col[i])}

RECURSIVE SumFn(_, _)
SumFn(fn, S) ==
    IF S = {} THEN 0
    ELSE LET x == CHOOSE x \in S : TRUE IN fn[x] + SumFn(fn, S \ {x})

RECURSIVE GCDSet(_)
GCDSet(S) ==
    IF S = {} THEN 0
    ELSE LET x == CHOOSE x \in S : TRUE IN GCD(Abs(x), GCDSet(S \ {x}))

Sgn(i) == IF i < 0 THEN -1 ELSE IF i > 0 THEN 1 ELSE 0

\* The sign of a - c*sqrt(p/q), for integers a, c, p >= 0, q > 0, decided on
\* the squares.
CmpRoot(a, c, p, q) ==
    LET rs == IF p = 0 THEN 0 ELSE Sgn(c)
    IN  IF a >= 0 /\ rs >= 0 THEN Sgn(a * a * q - c * c * p)
        ELSE IF a >= 0 THEN 1
        ELSE IF rs >= 0 THEN -1
        ELSE Sgn(c * c * p - a * a * q)

\* The valid samples of a column as whole numbers in a common unit (the
\* cells of the tables read here are whole numbers; the comparisons below
\* do not depend on the unit).
Unit(col) ==
    LET g == GCDSet({col[i].n : i \in ValidIdx(col)}) IN IF g = 0 THEN 1 ELSE g

Scaled(col) == [i \in ValidIdx(col) |-> col[i].n \div Unit(col)]

\* Series.count(), Series.abs().sum(), Series.sum() and the sum of squares
\* of the valid samples.
Count(col) == Cardinality(ValidIdx(col))
SumAbs(col) == SumFn([i \in ValidIdx(col) |-> Abs(Scaled(col)[i])], ValidIdx(col))
SumVal(col) == SumFn(Scaled(col), ValidIdx(col))
SumSq(col) == SumFn([i \in ValidIdx(col) |-> Scaled(col)[i] * Scaled(col)[i]], ValidIdx(col))

\* n*(n-1) times the sample variance (ddof = 1) that Series.std() is the
\* root of: n*sum(x^2) - sum(x)^2.
VarNum(col) == Count(col) * SumSq(col) - SumVal(col) * SumVal(col)

\* The rows of the mask data[column].abs() < mean + coarseness*sigma with
\* mean = data[column].abs().mean() and sigma = data[column].std():
\* |x| - sum|x|/n < c*sqrt(VarNum/(n(n-1))). The std of a single sample is
\* NaN, and a comparison with NaN is False.
KeptRows(col, coarse) ==
    LET valid == ValidIdx(col)
        n == Cardinality(valid)
        u == Unit(col)
        x == [i \in valid |-> col[i].n \div u]
        sumAbs == SumFn([i \in valid |-> Abs(x[i])], valid)
        sumVal == SumFn(x, valid)
        sumSq == SumFn([i \in valid |-> x[i] * x[i]], valid)
        varNum == n * sumSq - sumVal * sumVal
    IN  IF n < 2 THEN {}
        ELSE {i \in valid : CmpRoot(n * Abs(x[i]) - sumAbs, coarse, n * varNum, n - 1) = -1}

\* Row i of the mask.
AbsBelowThreshold(col, i, coarse) == i \in KeptRows(col, coarse)

\* data.columns: the columns in the order of colnames[1:], lines 76-78
ColumnOrder ==
    <<"Bx [nT]", "By [nT]", "Bz [nT]", "Vx [km/s]", "Vy [km/s]", "Vz [km/s]",
      "Rho [n/cc]", "T [K]">>

\* A variant that keeps the masked rows of the whole table: data = data[mask],
\* the rows the mask of one column drops are lost in every column.
FilterColumnRows(tab, column, coarse) ==
    LET mask == KeptRows(tab[column], coarse)
    IN  [f \in DOMAIN tab |->
            [i \in DOMAIN tab[f] |-> IF i \in mask THEN tab[f][i] ELSE NaN]]

\* One iteration of the loop of lines 103-106 on the table as it stands:
\* data[column] = data[mask][column], the rows the mask of that column
\* drops become NaN in that column.
FilterColumn(tab, column, coarse) ==
    LET mask == KeptRows(tab[column], coarse)
    IN  [tab EXCEPT ![column] =
            [i \in DOMAIN tab[column] |-> IF i \in mask THEN tab[column][i] ELSE NaN]]

\* The loop over the columns, from the k-th column of data.columns on.
RECURSIVE FilterFrom(_, _, _)
FilterFrom(tab, k, coarse) ==
    IF k > Len(ColumnOrder) THEN tab
    ELSE IF ColumnOrder[k] \in DOMAIN tab
         THEN FilterFrom(FilterColumn(tab, ColumnOrder[k], coarse), k + 1, coarse)
         ELSE FilterFrom(tab, k + 1, coarse)

\* _coarse_filtering(data, coarseness), lines 101-106
coarse_filtering(tab, coarse) == FilterFrom(tab, 1, coarse)

Max(S) == CHOOSE x \in S : \A y \in S : y <= x
Min(S) == CHOOSE x \in S : \A y \in S : x <= y

ValidBefore(col, i) == {j \in ValidIdx(col) : j < i}
ValidAfter(col, i) == {j \in ValidIdx(col) : j > i}

\* Series.interpolate(): linear, forward; a NaN after the first valid sample
\* lies on the line between its valid neighbours, or takes the last valid
\* value when none follows; the NaNs before the first valid sample stay.
interpolate(col) ==
    [i \in DOMAIN col |->
        IF ~IsNaN(col[i]) \/ ValidBefore(col, i) = {} THEN col[i]
        ELSE LET i0 == Max(ValidBefore(col, i))
             IN  IF ValidAfter(col, i) = {} THEN col[i0]
                 ELSE LET i1 == Min(ValidAfter(col, i))
                      IN  Add(col[i0],
                              DivInt(MulInt(i - i0, Sub(col[i1], col[i0])), i1 - i0))]

\* Series.bfill(): a NaN takes the next valid value, if any.
bfill(col) ==
    [i \in DOMAIN col |->
        IF ~IsNaN(col[i]) \/ ValidAfter(col, i) = {} THEN col[i]
        ELSE col[Min(ValidAfter(col, i))]]

\* Series.ffill(): a NaN takes the last valid value, if any.
ffill(col) ==
    [i \in DOMAIN col |->
        IF ~IsNaN(col[i]) \/ ValidBefore(col, i) = {} THEN col[i]
        ELSE col[Max(ValidBefore(col, i))]]

\* data.interpolate().bfill().ffill(), line 98
FillAll(tab) == [f \in DOMAIN tab |-> ffill(bfill(interpolate(tab[f])))]

\* Lines 85-94: if kwargs.get('clean', True)
ReadClean ==
    /\ rpc = "read"
    /\ frame' = IF kw_clean THEN CleanBadData(frame) ELSE frame
    /\ rpc' = "cleaned"
    /\ UNCHANGED <<csv, kw_clean, filtering, coarseness, before, out>>
    /\ UNCHANGED notCsv

\* Lines 96-97: if filtering: _coarse_filtering(data, kwargs.get('coarseness', 3))
ReadFilter ==
    /\ rpc = "cleaned"
    /\ before' = frame
    /\ frame' = IF filtering THEN coarse_filtering(frame, coarseness) ELSE frame
    /\ rpc' = "filtered"
    /\ UNCHANGED <<csv, kw_clean, filtering, coarseness, out>>
    /\ UNCHANGED notCsv

\* Line 98: return data.interpolate().bfill().ffill()
ReadReturn ==
    /\ rpc = "filtered"
    /\ out' = FillAll(frame)
    /\ rpc' = "returned"
    /\ UNCHANGED <<csv, frame, kw_clean, filtering, coarseness, before>>
    /\ UNCHANGED notCsv

\* The cells of a column of the file: whole numbers around zero and the
\* column's bound.
FieldVals(f) == {Rat(-(Limit(f) \div 4)), Rat(0), Rat(Limit(f) \div 4), Rat(Limit(f))}

\* A column of the file that holds a plain ramp.
Ramp(rows) == [i \in 0..(rows - 1) |-> Rat(i + 1)]

\* A table read: column f holds the cells col, the others a ramp.
Table(f, col) == [g \in Fields |-> IF g = f THEN col ELSE Ramp(size(col))]

\* Values of the coarseness keyword, the non-positive ones included.
Coarsenesses == {-1, 0, 1, 3}

\* Lines 79-83: the file is read into data.
InitCsv ==
    /\ \E rows \in 0..MaxRows : \E f \in Fields :
            \E col \in [0..(rows - 1) -> FieldVals(f)] : csv = Table(f, col)
    /\ frame = csv
    /\ kw_clean \in BOOLEAN
    /\ filtering \in BOOLEAN
    /\ coarseness \in (IF filtering THEN Coarsenesses ELSE {3})
    /\ before = <<>>
    /\ out = <<>>
    /\ rpc = "read"
    /\ CleanIdle
    /\ CliIdle
    /\ PrmIdle
    /\ ParIdle
    /\ ToolsWebIdle

NextCsv == ReadClean \/ ReadFilter \/ ReadReturn

SpecCsv == InitCsv /\ [][NextCsv]_vars

\* The cells of a column of a file whose samples lie at and next to the
\* column's bound, and a speed between the two velocity bounds.
BoundVals(f) ==
    {Rat(-Limit(f)), Rat(1 - Limit(f)), Rat(Limit(f) - 1), Rat(Limit(f)), Rat(1500)}

\* read_omni_csv(filename, clean=...) of such a file, filtering left at its
\* default False.
InitBounds ==
    /\ \E rows \in 0..MaxRows : \E f \in Fields :
            \E col \in [0..(rows - 1) -> BoundVals(f)] : csv = Table(f, col)
    /\ frame = csv
    /\ kw_clean \in BOOLEAN
    /\ filtering = FALSE
    /\ coarseness = 3
    /\ before = <<>>
    /\ out = <<>>
    /\ rpc = "read"
    /\ CleanIdle
    /\ CliIdle
    /\ PrmIdle
    /\ ParIdle
    /\ ToolsWebIdle

SpecBounds == InitBounds /\ [][NextCsv]_vars

-----------------------------------------------------------------------------
(* main, cleanomnidata.py *)

\* The loop of clean from iteration l on, and the array it leaves.
RECURSIVE CleanFrom(_, _)
CleanFrom(s, l) ==
    IF l >= size(s.arr) THEN s.arr ELSE CleanFrom(CleanIter(s, l), l + 1)

\* clean(data) on an array of two or more samples, omni2swmf.py lines 156-180
clean(arr) ==
    CleanFrom([arr |-> arr, prevdata |-> arr[0], nextdata |-> arr[1],
               prevlocation |-> 0, nextlocation |-> 1, baddata |-> FALSE], 1)

\* The fields in the order main cleans them, lines 36-43
CliFields == <<"bx", "by", "bz", "vx", "vy", "vz", "dens", "temp">>

\* print("Please specify ... file."); print(USAGE_TEXT); sys.exit(1)
CliUsageExit(msg) ==
    /\ stdout' = stdout \o <<msg, "USAGE_TEXT">>
    /\ exit_status' = 1
    /\ cli_pc' = "exit"

\* Lines 23-29: data = read_data(args[1]); ifile = open(args[1], 'r')
CliReadInput ==
    /\ cli_pc = "start"
    /\ IF nargs >= 1 /\ in_ok
       THEN /\ cli_pc' = "input"
            /\ UNCHANGED <<stdout, exit_status>>
       ELSE CliUsageExit("Please specify input file.")
    /\ UNCHANGED <<nargs, in_ok, out_ok, disk0, disk, cdata, cli_k, uncaught>>
    /\ UNCHANGED notCli

\* Lines 30-35: ofile = open(args[2], 'w') creates the file, or empties it
CliOpenOutput ==
    /\ cli_pc = "input"
    /\ IF nargs >= 2 /\ out_ok
       THEN /\ disk' = [exists |-> TRUE, lines |-> <<>>]
            /\ cli_pc' = "clean"
            /\ UNCHANGED <<stdout, exit_status>>
       ELSE /\ CliUsageExit("Please specify output file.")
            /\ UNCHANGED disk
    /\ UNCHANGED <<nargs, in_ok, out_ok, disk0, cdata, cli_k, uncaught>>
    /\ UNCHANGED notCli

\* Lines 36-43: the next b_x = clean(data['bx']); clean works in place on
\* the field, and its IndexError is caught nowhere.
CliCleanColumn ==
    /\ cli_pc = "clean"
    /\ cli_k < Len(CliFields)
    /\ LET f == CliFields[cli_k + 1]
       IN  IF size(cdata[f]) < 2
           THEN /\ uncaught' = "IndexError"
                /\ exit_status' = 1
                /\ cli_pc' = "exit"
                /\ UNCHANGED <<cdata, cli_k>>
           ELSE /\ cdata' = [cdata EXCEPT ![f] = clean(cdata[f])]
                /\ cli_k' = cli_k + 1
                /\ UNCHANGED <<uncaught, exit_status, cli_pc>>
    /\ UNCHANGED <<nargs, in_ok, out_ok, disk0, disk, stdout>>
    /\ UNCHANGED notCli

\* One line of the output file: its kind and the eight cleaned values it
\* carries (the date columns and the truncation of the digits are left out).
CliLine(kind, vals) == [kind |-> kind, vals |-> vals]

\* Lines 44-58: the three header lines are copied, each data line is written
\* with the cleaned values of its row; the process ends with status 0.
CliWrite ==
    /\ cli_pc = "clean"
    /\ cli_k = Len(CliFields)
    /\ disk' = [exists |-> TRUE,
                lines |-> [k \in 1..3 |-> CliLine("header", <<>>)] \o
                          [r \in 1..size(cdata["bx"]) |->
                              CliLine("data", [k \in 1..Len(CliFields) |->
                                                  cdata[CliFields[k]][r - 1]])]]
    /\ cli_pc' = "exit"
    /\ exit_status' = 0
    /\ UNCHANGED <<nargs, in_ok, out_ok, disk0, cdata, cli_k, stdout, uncaught>>
    /\ UNCHANGED notCli

\* The values of a field of the input file: a fill value and two measured values.
CliVals == {Fill999_99, Rat(1), Rat(4)}

\* The array read_data returns: field f holds the cells col, the others a ramp.
CliTable(f, col) ==
    [g \in {CliFields[k] : k \in 1..Len(CliFields)} |->
        IF g = f THEN col ELSE Ramp(size(col))]

\* The output file before the run: absent, or left by an earlier run.
CliDisks == {[exists |-> FALSE, lines |-> <<>>],
             [exists |-> TRUE, lines |-> <<CliLine("old", <<>>)>>]}

InitCli ==
    /\ nargs \in 0..2
    /\ in_ok \in BOOLEAN
    /\ out_ok \in BOOLEAN
    /\ disk0 \in CliDisks
    /\ disk = disk0
    /\ \E rows \in 1..MaxCliRows : \E k \in 1..Len(CliFields) :
            \E col \in [0..(rows - 1) -> CliVals] : cdata = CliTable(CliFields[k], col)
    /\ cli_k = 0
    /\ cli_pc = "start"
    /\ exit_status = -1
    /\ stdout = <<>>
    /\ uncaught = ""
    /\ CleanIdle
    /\ CsvIdle
    /\ PrmIdle
    /\ ParIdle
    /\ ToolsWebIdle

NextCli == CliReadInput \/ CliOpenOutput \/ CliCleanColumn \/ CliWrite

SpecCli == InitCli /\ [][NextCli]_vars

-----------------------------------------------------------------------------
(* read_command and replace_command, paramin.py *)

(* A str is the sequence of its characters; a line of the file is kept as
   line.split(), the sequence of its words.  None is the empty tuple, which
   is no word: split() yields no empty word. *)
None == <<>>

\* str.startswith
startswith(word, c) == Len(word) > 0 /\ word[1] = c

\* _get_command(line), lines 159-164: the first word when it starts with '#'
get_command(line) ==
    IF Len(line) > 0 /\ startswith(line[1], "#") THEN line[1] ELSE None

\* A value of `parameters`: a str, a list of values, or a number.
StrValue(words) == [kind |-> "str", words |-> words]
ListValue(items) == [kind |-> "list", items |-> items]
IntValue(n) == [kind |-> "int", n |-> n]

\* '\t\t\t'.join(texts), as words
RECURSIVE JoinWords(_)
JoinWords(texts) ==
    IF texts = <<>> THEN <<>> ELSE Head(texts) \o JoinWords(Tail(texts))

\* _make_line(value), lines 141-147, as the words of the line it makes
RECURSIVE make_line(_)
make_line(value) ==
    IF value.kind = "str" THEN value.words
    ELSE IF value.kind = "list"
    THEN JoinWords([k \in 1..Len(value.items) |-> make_line(value.items[k])])
    ELSE << <<ToString(value.n)>> >>

\* The loop of read_command, lines 114-125, from line i on; st holds
\* return_values, command_found and in_command.
RECURSIVE ReadLines(_, _, _, _)
ReadLines(lines, i, command, st) ==
    IF i > Len(lines) THEN st
    ELSE LET line == lines[i]
             st1 == IF get_command(line) = command
                    THEN [return_values |-> Append(st.return_values, command),
                          command_found |-> TRUE, in_command |-> TRUE]
                    ELSE IF st.in_command /\ get_command(line) # None
                    THEN [st EXCEPT !.in_command = FALSE]
                    ELSE IF Len(line) > 0 /\ st.in_command
                    THEN [st EXCEPT !.return_values = Append(@, line[1])]
                    ELSE st
         IN  ReadLines(lines, i + 1, command, st1)

\* The truth value of kwargs.get('num_of_values', None), line 134
Truthy(kwargs) == "num_of_values" \in DOMAIN kwargs /\ kwargs.num_of_values # 0

\* return_values[:value_limit+1] for value_limit >= 0
Slice(seq, n) == SubSeq(seq, 1, IF n < Len(seq) THEN n ELSE Len(seq))

\* read_command(command, paramin_file, **kwargs), lines 110-137
read_command(command, lines, kwargs) ==
    LET st == ReadLines(lines, 1, command,
                        [return_values |-> <<>>, command_found |-> FALSE,
                         in_command |-> FALSE])
    IN  IF ~st.command_found
        THEN [raised |-> "ValueError", ret |-> <<>>]
        ELSE [raised |-> "",
              ret |-> IF Truthy(kwargs)
                      THEN Slice(st.return_values, kwargs.num_of_values + 1)
                      ELSE st.return_values]

\* The inner loop of replace_command, lines 55-60, from value param on:
\* lines[line_num+param+1] = newline + '\n', IndexError past the last line.
\* line_num counts from 1 here, param from 0.
RECURSIVE ReplaceValues(_, _, _, _)
ReplaceValues(lines, line_num, values, param) ==
    IF param >= Len(values) THEN [raised |-> "", lines |-> lines]
    ELSE IF line_num + param + 1 > Len(lines)
    THEN [raised |-> "IndexError", lines |-> lines]
    ELSE ReplaceValues([lines EXCEPT ![line_num + param + 1] =
                                         make_line(values[param + 1])],
                       line_num, values, param + 1)

\* The outer loop, lines 49-60: enumerate(lines) walks the list that the
\* inner loop changes, so a replaced line is looked at as it is by then.
RECURSIVE ReplaceLines(_, _, _)
ReplaceLines(lines, line_num, parameters) ==
    IF line_num > Len(lines) THEN [raised |-> "", lines |-> lines]
    ELSE LET command == get_command(lines[line_num])
         IN  IF command \in DOMAIN parameters
             THEN LET r == ReplaceValues(lines, line_num, parameters[command], 0)
                  IN  IF r.raised # "" THEN r
                      ELSE ReplaceLines(r.lines, line_num + 1, parameters)
             ELSE ReplaceLines(lines, line_num + 1, parameters)

\* One call of read_command on the file
ReadCommand(command, kwargs) ==
    /\ p_pc = "ready"
    /\ LET r == read_command(command, pfile, kwargs)
       IN  /\ p_ret' = r.ret
           /\ p_raised' = r.raised
    /\ p_command' = command
    /\ p_kwargs' = kwargs
    /\ p_pc' = "read"
    /\ UNCHANGED <<pfile, p_parameters, p_output, p_written>>
    /\ UNCHANGED notPrm

\* One call of replace_command on the file, lines 44-69; output says whether
\* output_file is a file name, and then the lines are written to it.
ReplaceCommand(parameters, output) ==
    /\ p_pc = "ready"
    /\ LET r == ReplaceLines(pfile, 1, parameters)
       IN  /\ p_raised' = r.raised
           /\ p_ret' = IF r.raised = "" THEN r.lines ELSE <<>>
           /\ p_written' = IF r.raised = "" /\ output THEN r.lines ELSE p_written
    /\ p_parameters' = parameters
    /\ p_output' = output
    /\ p_pc' = "replaced"
    /\ UNCHANGED <<pfile, p_command, p_kwargs>>
    /\ UNCHANGED notPrm

\* The words of the files and of the calls
CmdA == <<"#", "A">>
CmdB == <<"#", "B">>
Word1 == <<"1">>
Word2 == <<"2">>
WordC == <<"c">>

\* The lines of a file: a command alone, a value, a value with a comment, a
\* blank line.
FileLines == { <<CmdA>>, <<CmdB>>, <<Word1>>, <<Word2, WordC>>, <<>> }

\* The commands asked for: two that a file may hold, and a word that is none.
Commands == {CmdA, CmdB, Word1}

\* kwargs of read_command: none, or num_of_values
Kwargs == {<<>>} \cup {[num_of_values |-> n] : n \in 0..2}

\* The value lists given for a command
ValueLists == { <<StrValue(<<Word2>>)>>,
                <<StrValue(<<Word2>>), IntValue(7)>>,
                <<ListValue(<<StrValue(<<Word1>>), StrValue(<<WordC>>)>>)>> }

\* The dictionaries given to replace_command: #A with a value list, #B
\* absent or with one value.
Parameters ==
    { [c \in {CmdA} |-> vl] : vl \in ValueLists } \cup
    { [c \in {CmdA, CmdB} |-> IF c = CmdA THEN vl ELSE <<StrValue(<<Word1>>)>>] :
          vl \in ValueLists }

InitPrm ==
    /\ \E n \in 0..MaxLines : pfile \in [1..n -> FileLines]
    /\ p_command = <<>>
    /\ p_kwargs = <<>>
    /\ p_parameters = <<>>
    /\ p_output = FALSE
    /\ p_written = <<>>
    /\ p_ret = <<>>
    /\ p_raised = ""
    /\ p_pc = "ready"
    /\ CleanIdle
    /\ CsvIdle
    /\ CliIdle
    /\ ParIdle
    /\ ToolsWebIdle

NextPrm ==
    \/ \E command \in Commands : \E kwargs \in Kwargs : ReadCommand(command, kwargs)
    \/ \E parameters \in Parameters : \E output \in BOOLEAN :
           ReplaceCommand(parameters, output)

SpecPrm == InitPrm /\ [][NextPrm]_vars

-----------------------------------------------------------------------------
(* Two calls of clean on two columns, their loop steps interleaved *)

Calls == {1, 2}

Other(p) == 3 - p

\* The column call p is given: data['bx'] and data['by'] are two arrays.
ColumnOf(p) == p

\* A variant in which the locals of clean are module-level names, one set
\* for every call.
FrameGlobal(p) == 1

\* The locals of clean live in the frame of the call: one frame per call.
Frame(p) == p

\* The locals before lines 156-160 have run
NoLocals ==
    [data |-> 0, prevdata |-> NaN, nextdata |-> NaN, prevlocation |-> 0,
     nextlocation |-> 0, baddata |-> FALSE, loc |-> 0]

\* Call p enters clean, lines 148-160
ParStart(p) ==
    /\ par_pc[p] = "call"
    /\ LET b == BindParam(par_heap, ColumnOf(p))
           arr == b.heap[b.ref]
       IN  /\ par_heap' = b.heap
           /\ IF size(arr) < 2
              THEN /\ par_pc' = [par_pc EXCEPT ![p] = "raised"]
                   /\ par_frame' = [par_frame EXCEPT ![Frame(p)].data = b.ref]
              ELSE /\ par_pc' = [par_pc EXCEPT ![p] = "loop"]
                   /\ par_frame' = [par_frame EXCEPT ![Frame(p)] =
                          [data |-> b.ref, prevdata |-> arr[0], nextdata |-> arr[1],
                           prevlocation |-> 0, nextlocation |-> 1,
                           baddata |-> FALSE, loc |-> 1]]
    /\ par_last' = p
    /\ par_mixed' = (par_mixed \/ par_pc[Other(p)] = "loop")
    /\ UNCHANGED <<par_in, par_ret>>
    /\ UNCHANGED notPar

\* One iteration of the loop of call p, lines 161-179
ParLoop(p) ==
    /\ par_pc[p] = "loop"
    /\ LET f == par_frame[Frame(p)]
       IN  /\ f.loc < size(par_heap[f.data])
           /\ LET t == CleanIter([arr |-> par_heap[f.data], prevdata |-> f.prevdata,
                                  nextdata |-> f.nextdata,
                                  prevlocation |-> f.prevlocation,
                                  nextlocation |-> f.nextlocation,
                                  baddata |-> f.baddata], f.loc)
              IN  /\ par_heap' = [par_heap EXCEPT ![f.data] = t.arr]
                  /\ par_frame' = [par_frame EXCEPT ![Frame(p)] =
                         [data |-> f.data, prevdata |-> t.prevdata,
                          nextdata |-> t.nextdata, prevlocation |-> t.prevlocation,
                          nextlocation |-> t.nextlocation, baddata |-> t.baddata,
                          loc |-> f.loc + 1]]
    /\ par_last' = p
    /\ par_mixed' = (par_mixed \/ par_pc[Other(p)] = "loop")
    /\ UNCHANGED <<par_in, par_pc, par_ret>>
    /\ UNCHANGED notPar

\* return data of call p, line 180
ParReturn(p) ==
    /\ par_pc[p] = "loop"
    /\ LET f == par_frame[Frame(p)]
       IN  /\ f.loc >= size(par_heap[f.data])
           /\ par_ret' = [par_ret EXCEPT ![p] = f.data]
    /\ par_pc' = [par_pc EXCEPT ![p] = "done"]
    /\ par_last' = p
    /\ par_mixed' = (par_mixed \/ par_pc[Other(p)] = "loop")
    /\ UNCHANGED <<par_in, par_heap, par_frame>>
    /\ UNCHANGED notPar

\* The values of the second column: a fill value and one measured value.
ParVals == {Fill99999_9, Rat(4)}

InitPar ==
    /\ \E n \in 1..MaxParLen : \E m \in 1..MaxParLen :
          \E c1 \in [0..(n - 1) -> CliVals] : \E c2 \in [0..(m - 1) -> ParVals] :
              par_in = <<c1, c2>>
    /\ par_heap = par_in
    /\ par_frame = [p \in Calls |-> NoLocals]
    /\ par_pc = [p \in Calls |-> "call"]
    /\ par_ret = [p \in Calls |-> 0]
    /\ par_last = 0
    /\ par_mixed = FALSE
    /\ CleanIdle
    /\ CsvIdle
    /\ CliIdle
    /\ PrmIdle
    /\ ToolsWebIdle

NextPar == \E p \in Calls : ParStart(p) \/ ParLoop(p) \/ ParReturn(p)

SpecPar == InitPar /\ [][NextPar]_vars

-----------------------------------------------------------------------------
(* limit_growth, limit_changes, interp_nans, tools.py *)

\* Float arithmetic and comparison: NaN in, NaN out; every comparison with
\* NaN is false (Less above is false on NaN).
FAdd(x, y) == IF IsNaN(x) \/ IsNaN(y) THEN NaN ELSE Add(x, y)
FSub(x, y) == IF IsNaN(x) \/ IsNaN(y) THEN NaN ELSE Sub(x, y)
FMul(x, y) == IF IsNaN(x) \/ IsNaN(y) THEN NaN ELSE Norm(x.n * y.n, x.d * y.d)
FDiv(x, y) ==
    IF IsNaN(x) \/ IsNaN(y) THEN NaN
    ELSE IF y.n < 0 THEN Norm(-(x.n * y.d), x.d * (-y.n))
    ELSE Norm(x.n * y.d, x.d * y.n)

Zero == Rat(0)

\* The builtins min(a, b) and max(a, b): the first argument unless the
\* second is smaller (larger).
PyMin(a, b) == IF Less(b, a) THEN b ELSE a
PyMax(a, b) == IF Less(a, b) THEN b ELSE a

\* A numpy array: its shape and its elements in row-major order.
Array(shape, elems) == [shape |-> shape, data |-> elems]

RECURSIVE SumSeq(_)
SumSeq(q) == IF q = <<>> THEN 0 ELSE Head(q) + SumSeq(Tail(q))

RECURSIVE ProdSeq(_)
ProdSeq(q) == IF q = <<>> THEN 1 ELSE Head(q) * ProdSeq(Tail(q))

\* sum(vector.shape) != vector.size, lines 48 and 96
NotOneD(arr) == SumSeq(arr.shape) # ProdSeq(arr.shape)

\* len(arr), and the number of elements of arr[i]
len(arr) == arr.shape[1]
RowSize(arr) == ProdSeq(Tail(arr.shape))

\* A variant that caps the growth but not the decay.
GrowthStepCapOnly(limited, i, look_ahead, factor) ==
    LET prev == limited[i - look_ahead]
        pos == IF Less(Zero, limited[i]) /\ Less(Zero, prev)
               THEN [limited EXCEPT ![i] = PyMin(FMul(prev, factor), limited[i])]
               ELSE limited
    IN  IF Less(pos[i], Zero) /\ Less(prev, Zero)
        THEN [pos EXCEPT ![i] = PyMin(FDiv(prev, factor), pos[i])]
        ELSE pos

\* The two ifs of lines 54-61 on element i of a one-dimensional array
GrowthStep(limited, i, look_ahead, factor) ==
    LET prev == limited[i - look_ahead]
        pos == IF Less(Zero, limited[i]) /\ Less(Zero, prev)
               THEN [limited EXCEPT ![i] =
                        PyMin(FMul(prev, factor),
                              PyMax(limited[i], FDiv(prev, factor)))]
               ELSE limited
    IN  IF Less(pos[i], Zero) /\ Less(prev, Zero)
        THEN [pos EXCEPT ![i] =
                 PyMin(FDiv(prev, factor), PyMax(pos[i], FMul(prev, factor)))]
        ELSE pos

(* The loop of lines 53-61 from index i on.  On an array of two or more
   axes limited[i] is an array, and the truth value of a comparison of an
   array of more than one element raises ValueError; no shape that passes
   line 48 has rows of fewer elements. *)
RECURSIVE GrowthLoop(_, _, _, _)
GrowthLoop(limited, i, look_ahead, factor) ==
    IF i >= len(limited) THEN [raised |-> "", ret |-> limited]
    ELSE IF Len(limited.shape) > 1
    THEN IF RowSize(limited) > 1
         THEN [raised |-> "ValueError", ret |-> <<>>]
         ELSE GrowthLoop(limited, i + 1, look_ahead, factor)
    ELSE GrowthLoop(Array(limited.shape,
                          GrowthStep(limited.data, i, look_ahead, factor)),
                    i + 1, look_ahead, factor)

\* np.copy(vector): a new array with the elements of vector
copy(arr) == Array(arr.shape, arr.data)

\* limit_growth(vector, factor, look_ahead), lines 48-63; `after` is the
\* array given as the call leaves it: only the copy is written.
limit_growth(vector, factor, look_ahead) ==
    IF NotOneD(vector)
    THEN [raised |-> "ValueError", ret |-> <<>>, after |-> vector]
    ELSE LET r == GrowthLoop(copy(vector), look_ahead, look_ahead, factor)
         IN  [raised |-> r.raised, ret |-> r.ret, after |-> vector]

\* bool(x) of a float: zero is false, NaN is true
Truth(x) == IsNaN(x) \/ x.n # 0

\* any(constrictor) on a one-dimensional array
any(arr) == \E k \in DOMAIN arr.data : Truth(arr.data[k])

\* Lines 107-110 and 115-118 on element i: change is (change[0], change[1])
ChangeStep(limited, i, change) ==
    [limited EXCEPT ![i] =
        PyMin(FAdd(limited[i - 1], change[1]),
              PyMax(FAdd(limited[i - 1], change[2]), limited[i]))]

\* The loop of lines 106-110 from index i on; rows as in GrowthLoop
RECURSIVE ChangeLoop(_, _, _)
ChangeLoop(limited, i, change) ==
    IF i >= len(limited) THEN [raised |-> "", ret |-> limited]
    ELSE IF Len(limited.shape) > 1
    THEN IF RowSize(limited) > 1
         THEN [raised |-> "ValueError", ret |-> <<>>]
         ELSE ChangeLoop(limited, i + 1, change)
    ELSE ChangeLoop(Array(limited.shape, ChangeStep(limited.data, i, change)),
                    i + 1, change)

\* The loop of lines 113-118 from index i on, on one-dimensional arrays
RECURSIVE ConstrictLoop(_, _, _, _)
ConstrictLoop(limited, i, constrictor, change2) ==
    IF i >= len(limited) THEN [raised |-> "", ret |-> limited]
    ELSE IF i >= len(constrictor)
    THEN [raised |-> "IndexError", ret |-> <<>>]
    ELSE IF ~Less(constrictor.data[i - 1], constrictor.data[i])
            /\ ~IsNaN(constrictor.data[i]) /\ ~IsNaN(constrictor.data[i - 1])
    THEN ConstrictLoop(Array(limited.shape, ChangeStep(limited.data, i, change2)),
                       i + 1, constrictor, change2)
    ELSE ConstrictLoop(limited, i + 1, constrictor, change2)

\* change[0] > 0 or change[1] < 0, lines 100 and 102
NotNegPos(change) == Less(Zero, change[1]) \/ Less(change[2], Zero)

(* limit_changes(vector, change, constrictor, change2, look_ahead), lines
   96-120.  kw holds the arguments constrictor and change2 that are given;
   one that is not given is None, and any(None) and None[0] raise
   TypeError. *)
limit_changes(vector, change, kw, look_ahead) ==
    LET fail(e) == [raised |-> e, ret |-> <<>>, after |-> vector]
    IN  IF NotOneD(vector) THEN fail("ValueError")
        ELSE IF "constrictor" \notin DOMAIN kw THEN fail("TypeError")
        ELSE IF any(kw.constrictor) /\ NotOneD(kw.constrictor) THEN fail("ValueError")
        ELSE IF NotNegPos(change) THEN fail("ValueError")
        ELSE IF "change2" \notin DOMAIN kw THEN fail("TypeError")
        ELSE IF NotNegPos(kw.change2) THEN fail("ValueError")
        ELSE LET first == ChangeLoop(copy(vector), look_ahead, change)
             IN  IF first.raised # "" THEN fail(first.raised)
                 ELSE IF any(kw.constrictor)
                 THEN LET second == ConstrictLoop(first.ret, look_ahead,
                                                  kw.constrictor, kw.change2)
                      IN  [raised |-> second.raised, ret |-> second.ret,
                           after |-> vector]
                 ELSE [raised |-> "", ret |-> first.ret, after |-> vector]

\* A variant that keeps every index, NaN or not.
NoNansAll(y) == [k \in 1..size(y) |-> k - 1]

\* np.nonzero(np.isnan(y_vals) == 0): the indices that hold no NaN, ascending
RECURSIVE NoNansFrom(_, _)
NoNansFrom(y, k) ==
    IF k >= size(y) THEN <<>>
    ELSE IF IsNaN(y[k]) THEN NoNansFrom(y, k + 1)
    ELSE <<k>> \o NoNansFrom(y, k + 1)

NoNans(y) == NoNansFrom(y, 0)

\* arr[idx]: the elements of arr at the indices idx, as a new array
Take(arr, idx) == [k \in 0..(Len(idx) - 1) |-> arr[idx[k + 1]]]

\* The search of np.interp among up to four sample points: the index before
\* the first sample point, from the second on, that exceeds key
RECURSIVE LinearSearch(_, _, _)
LinearSearch(key, xp, i) ==
    IF i < size(xp) /\ ~Less(key, xp[i]) /\ ~IsNaN(xp[i])
    THEN LinearSearch(key, xp, i + 1)
    ELSE i - 1

\* The bisection of np.interp among more sample points
RECURSIVE Bisect(_, _, _, _)
Bisect(key, xp, imin, imax) ==
    IF imin < imax
    THEN LET imid == imin + ((imax - imin) \div 2)
         IN  IF ~Less(key, xp[imid]) /\ ~IsNaN(xp[imid])
             THEN Bisect(key, xp, imid + 1, imax)
             ELSE Bisect(key, xp, imin, imid)
    ELSE imin - 1

\* np.interp(x, xp, fp) at one point x, for one or more sample points: the
\* end values outside the sample points, a sample value on a sample point,
\* the line through the two neighbours otherwise
InterpAt(x, xp, fp) ==
    LET last == size(xp) - 1
    IN  IF size(xp) = 1 THEN fp[0]
        ELSE IF IsNaN(x) THEN x
        ELSE IF Less(xp[last], x) THEN fp[last]
        ELSE IF Less(x, xp[0]) THEN fp[0]
        ELSE LET j == IF size(xp) <= 4 THEN LinearSearch(x, xp, 1)
                      ELSE Bisect(x, xp, 0, size(xp))
             IN  IF j = last \/ xp[j] = x THEN fp[j]
                 ELSE LET slope == FDiv(FSub(fp[j + 1], fp[j]),
                                        FSub(xp[j + 1], xp[j]))
                      IN  FAdd(FMul(slope, FSub(x, xp[j])), fp[j])

\* interp_nans(x_vals, y_vals), lines 137-138; np.interp raises ValueError
\* when no sample point is left
interp_nans(x_vals, y_vals) ==
    LET nonans == NoNans(y_vals.data)
        xp == Take(x_vals.data, nonans)
        fp == Take(y_vals.data, nonans)
    IN  IF nonans = <<>> THEN [raised |-> "ValueError", ret |-> <<>>]
        ELSE [raised |-> "",
              ret |-> Array(x_vals.shape,
                            [k \in DOMAIN x_vals.data |->
                                InterpAt(x_vals.data[k], xp, fp)])]

\* One call of interp_nans on a one-dimensional y_vals and an x_vals of its
\* length
InterpNans(x_vals) ==
    /\ t_pc = "ready"
    /\ Len(t_vector.shape) = 1
    /\ LET r == interp_nans(x_vals, t_vector)
       IN  /\ t_raised' = r.raised
           /\ t_ret' = r.ret
    /\ t_call' = [fn |-> "interp_nans", x_vals |-> x_vals]
    /\ t_pc' = "done"
    /\ UNCHANGED <<t_vector, t_after>>
    /\ UNCHANGED notTools

\* The x values given with n y values: ascending, all equal, descending
XVals(n) ==
    { Array(<<n>>, [k \in 0..(n - 1) |-> Rat(k)]),
      Array(<<n>>, [k \in 0..(n - 1) |-> Rat(1)]),
      Array(<<n>>, [k \in 0..(n - 1) |-> Rat(n - k)]) }

\* One call of limit_growth
LimitGrowth(factor, look_ahead) ==
    /\ t_pc = "ready"
    /\ LET r == limit_growth(t_vector, factor, look_ahead)
       IN  /\ t_raised' = r.raised
           /\ t_ret' = r.ret
           /\ t_after' = r.after
    /\ t_call' = [fn |-> "limit_growth", factor |-> factor, look_ahead |-> look_ahead]
    /\ t_pc' = "done"
    /\ UNCHANGED t_vector
    /\ UNCHANGED notTools

\* One call of limit_changes
LimitChanges(change, kw, look_ahead) ==
    /\ t_pc = "ready"
    /\ LET r == limit_changes(t_vector, change, kw, look_ahead)
       IN  /\ t_raised' = r.raised
           /\ t_ret' = r.ret
           /\ t_after' = r.after
    /\ t_call' = [fn |-> "limit_changes", change |-> change, kw |-> kw,
                  look_ahead |-> look_ahead]
    /\ t_pc' = "done"
    /\ UNCHANGED t_vector
    /\ UNCHANGED notTools

\* The elements of the vectors: NaN, negative, zero and positive values
ToolVals == {NaN, Rat(-4), Rat(-1), Zero, Rat(1), Rat(4)}

\* The lengths of the axes of the arrays of two and three axes
AxisLens == 0..3

\* An array of the given shape, every element 1.0
Ones(shape) == Array(shape, [k \in 0..(ProdSeq(shape) - 1) |-> Rat(1)])

Factors == {Rat(2), Norm(3, 2)}

LookAheads == {1, 2}

Changes == {<<Rat(-1), Rat(1)>>, <<Zero, Rat(4)>>, <<Rat(1), Rat(4)>>}

\* The constrictors given with a vector of n elements: all zero, growing,
\* shrinking
Constrictors(n) ==
    { Array(<<n>>, [k \in 0..(n - 1) |-> Zero]),
      Array(<<n>>, [k \in 0..(n - 1) |-> Rat(k + 1)]),
      Array(<<n>>, [k \in 0..(n - 1) |-> Rat(n - k)]) }

Changes2 == {<<Rat(-1), Zero>>, <<Rat(1), Rat(4)>>}

\* The arguments constrictor and change2 of a call: each given or not
ChangeKws(n) ==
    {<<>>} \cup {[constrictor |-> c] : c \in Constrictors(n)}
           \cup {[change2 |-> c2] : c2 \in Changes2}
           \cup {[constrictor |-> c, change2 |-> c2] :
                    c \in Constrictors(n), c2 \in Changes2}

InitTools ==
    /\ \/ \E n \in 0..MaxVec : \E d \in [0..(n - 1) -> ToolVals] :
              t_vector = Array(<<n>>, d)
       \/ t_vector = Ones(<<>>)
       \/ \E a, b \in AxisLens : t_vector = Ones(<<a, b>>)
       \/ \E a, b, c \in AxisLens : t_vector = Ones(<<a, b, c>>)
    /\ t_call = <<>>
    /\ t_after = t_vector
    /\ t_ret = <<>>
    /\ t_raised = ""
    /\ t_pc = "ready"
    /\ CleanIdle
    /\ CsvIdle
    /\ CliIdle
    /\ PrmIdle
    /\ ParIdle
    /\ OmniIdle
    /\ AdaptIdle

NextTools ==
    \/ \E factor \in Factors : \E look_ahead \in LookAheads :
           LimitGrowth(factor, look_ahead)
    \/ \E change \in Changes : \E look_ahead \in LookAheads :
           \E kw \in ChangeKws(ProdSeq(t_vector.shape)) :
               LimitChanges(change, kw, look_ahead)
    \/ \E x_vals \in XVals(ProdSeq(t_vector.shape)) : InterpNans(x_vals)

SpecTools == InitTools /\ [][NextTools]_vars

-----------------------------------------------------------------------------
(* get_omni_data, web.py *)

\* A str is the sequence of its characters.
DigitChars == <<"0", "1", "2", "3", "4", "5", "6", "7", "8", "9">>

DigitVal(c) == CHOOSE v \in 0..9 : DigitChars[v + 1] = c

\* str(n) for n >= 0
RECURSIVE str(_)
str(n) == IF n < 10 THEN <<DigitChars[n + 1]>>
          ELSE str(n \div 10) \o <<DigitChars[(n % 10) + 1]>>

\* s.zfill(width)
RECURSIVE zfill(_, _)
zfill(chars, width) ==
    IF Len(chars) >= width THEN chars ELSE zfill(<<"0">> \o chars, width)

\* int(s) for a str of digits
RECURSIVE int(_)
int(chars) ==
    IF chars = <<>> THEN 0
    ELSE 10 * int(SubSeq(chars, 1, Len(chars) - 1)) + DigitVal(chars[Len(chars)])

\* float(s) for a str of digits with at most one '.'
RECURSIVE float(_)
float(chars) ==
    IF \E k \in 1..Len(chars) : chars[k] = "."
    THEN LET k == CHOOSE k \in 1..Len(chars) : chars[k] = "."
             frac == SubSeq(chars, k + 1, Len(chars))
             whole == SubSeq(chars, 1, k - 1)
         IN  Add(Rat(int(whole)), FDiv(Rat(int(frac)), Rat(10 ^ Len(frac))))
    ELSE Rat(int(chars))

\* datetime.datetime(year, month, day, hour, minute)
datetime(y, m, d, h, mi) ==
    [year |-> y, month |-> m, day |-> d, hour |-> h, minute |-> mi]

\* a < b on datetimes: year, month, day, hour, minute in this order
DtLess(a, b) ==
    LET ka == <<a.year, a.month, a.day, a.hour, a.minute>>
        kb == <<b.year, b.month, b.day, b.hour, b.minute>>
    IN  \E k \in 1..5 : ka[k] < kb[k] /\ \A j \in 1..(k - 1) : ka[j] = kb[j]

DtLeq(a, b) == a = b \/ DtLess(a, b)

IsLeap(y) == (y % 4 = 0 /\ y % 100 # 0) \/ y % 400 = 0

DaysIn(y, m) ==
    IF m = 2 THEN (IF IsLeap(y) THEN 29 ELSE 28)
    ELSE IF m \in {4, 6, 9, 11} THEN 30 ELSE 31

\* The number of days of year y before month m
RECURSIVE DaysBefore(_, _)
DaysBefore(y, m) == IF m = 1 THEN 0 ELSE DaysBefore(y, m - 1) + DaysIn(y, m - 1)

\* strptime(..., '%Y %j %H %M'): the day of the year gives month and day
strptime(cols) ==
    LET y == int(cols[1])
        doy == int(cols[2])
        m == CHOOSE m \in 1..12 :
                 DaysBefore(y, m) < doy /\ doy <= DaysBefore(y, m) + DaysIn(y, m)
    IN  datetime(y, m, doy - DaysBefore(y, m), int(cols[3]), int(cols[4]))

\* _check_bad_omni_num(value_string), lines 110-113
check_bad_omni_num(chars) == \A k \in 1..Len(chars) : chars[k] \in {"9", "."}

\* A variant of the test of line 94 that leaves out both ends.
InRangeOpen(time, time_from, time_to) ==
    DtLess(time_from, time) /\ DtLess(time, time_to)

\* time >= time_from and time <= time_to, line 94
InRange(time, time_from, time_to) == DtLeq(time_from, time) /\ DtLeq(time, time_to)

\* Lines 86-101 from line k of the file on: a row in range adds its time to
\* 'times' and, per column, None (here <<>>) or the float of the value;
\* one column stands for the columns of OMNI_COLS.
RECURSIVE ParseLines(_, _, _, _, _)
ParseLines(lines, k, return_data, time_from, time_to) ==
    IF k > Len(lines) THEN return_data
    ELSE LET cols == lines[k]
             time == strptime(cols)
             value == cols[5]
         IN  ParseLines(lines, k + 1,
                 IF InRange(time, time_from, time_to)
                 THEN [times |-> Append(return_data.times, time),
                       col |-> Append(return_data.col,
                                      IF check_bad_omni_num(value) THEN <<>>
                                      ELSE <<float(value)>>)]
                 ELSE return_data,
                 time_from, time_to)

\* A variant in which the months are counted from the day of time_from.
DtStartSameDay(time_from) ==
    datetime(time_from.year, time_from.month, time_from.day, 0, 0)

\* dtstart of the rrule, lines 74-76
DtStart(time_from) == datetime(time_from.year, time_from.month, 1, 0, 0)

\* until of the rrule, lines 77-79
Until(time_to) == datetime(time_to.year, time_to.month, 25, 0, 0)

\* The next date of rrule.MONTHLY (for a day every month has)
NextMonth(date) ==
    IF date.month = 12 THEN [date EXCEPT !.year = date.year + 1, !.month = 1]
    ELSE [date EXCEPT !.month = date.month + 1]

\* str(date.year) + str(date.month).zfill(2), line 81; 'omni_min' and '.asc'
\* are the same for every file
Suffix(date) == str(date.year) \o zfill(str(date.month), 2)

\* The years the server holds, as many as NumYears
FirstYear == 2015
Years == FirstYear..(FirstYear + NumYears - 1)

\* The rows of the month (y, m) in the archive: their times and the value of
\* their column
ArchiveRows(y, m) ==
    << [time |-> datetime(y, m, 1, 0, 0), value |-> <<"1", "2">>],
       [time |-> datetime(y, m, 1, 3, 0), value |-> <<"9", "9", ".", "9">>],
       [time |-> datetime(y, m, 25, 0, 0), value |-> <<"0", ".", "5">>],
       [time |-> datetime(y, m, 28, 3, 0), value |-> <<"7">>] >>

\* A row as the line of the file: year, day of year, hour, minute, value
FileLine(row) ==
    << str(row.time.year),
       str(DaysBefore(row.time.year, row.time.month) + row.time.day),
       str(row.time.hour), str(row.time.minute), row.value >>

\* The name of the file of month (y, m) on the server
FileName(y, m) == str(y) \o zfill(str(m), 2)

\* The months the server holds: the last month of the last year is not
\* there yet
OnServer(y, m) == y \in Years /\ m \in 1..12 /\ ~(y = FirstYear + NumYears - 1 /\ m = 12)

\* urllib.request.urlopen(omni_url+suffix): the lines of the file, or
\* <<"HTTPError">> when the server has no such file
urlopen(suffix) ==
    IF \E y \in Years, m \in 1..12 : OnServer(y, m) /\ FileName(y, m) = suffix
    THEN LET ym == CHOOSE ym \in Years \X (1..12) : FileName(ym[1], ym[2]) = suffix
             rows == ArchiveRows(ym[1], ym[2])
         IN  [k \in 1..Len(rows) |-> FileLine(rows[k])]
    ELSE <<"HTTPError">>

\* One iteration of the loop of line 73, the file retrieved: lines 80-101
OmniFetch ==
    /\ o_pc = "loop"
    /\ DtLeq(o_date, Until(o_to))
    /\ LET suffix == Suffix(o_date)
           omni_data == urlopen(suffix)
       IN  /\ o_fetched' = Append(o_fetched, suffix)
           /\ IF omni_data = <<"HTTPError">>
              THEN /\ o_pc' = "raised"
                   /\ o_raised' = "HTTPError"
                   /\ UNCHANGED <<o_data, o_date>>
              ELSE /\ o_data' = ParseLines(omni_data, 1, o_data, o_from, o_to)
                   /\ o_date' = NextMonth(o_date)
                   /\ UNCHANGED <<o_pc, o_raised>>
    /\ UNCHANGED <<o_from, o_to, o_ret>>
    /\ UNCHANGED notOmni

\* One iteration of the loop in which urlopen fails (no connection): the
\* URLError is caught nowhere.
OmniFetchFails ==
    /\ o_pc = "loop"
    /\ DtLeq(o_date, Until(o_to))
    /\ o_fetched' = Append(o_fetched, Suffix(o_date))
    /\ o_pc' = "raised"
    /\ o_raised' = "URLError"
    /\ UNCHANGED <<o_from, o_to, o_date, o_data, o_ret>>
    /\ UNCHANGED notOmni

\* return return_data, line 103
OmniReturn ==
    /\ o_pc = "loop"
    /\ ~DtLeq(o_date, Until(o_to))
    /\ o_ret' = o_data
    /\ o_pc' = "returned"
    /\ UNCHANGED <<o_from, o_to, o_date, o_fetched, o_data, o_raised>>
    /\ UNCHANGED notOmni

\* The times asked for: first, second and last month of a year, days before
\* and after the 25th, on and off the rows of the archive
AskedTimes ==
    { datetime(y, m, d, h, 0) : y \in Years, m \in {1, 2, 12},
                                d \in {1, 25, 26, 28}, h \in {0, 3} }

InitOmni ==
    /\ o_from \in AskedTimes
    /\ o_to \in AskedTimes
    /\ o_date = DtStart(o_from)
    /\ o_fetched = <<>>
    /\ o_data = [times |-> <<>>, col |-> <<>>]
    /\ o_ret = <<>>
    /\ o_raised = ""
    /\ o_pc = "loop"
    /\ CleanIdle
    /\ CsvIdle
    /\ CliIdle
    /\ PrmIdle
    /\ ParIdle
    /\ ToolsIdle
    /\ AdaptIdle

NextOmni == OmniFetch \/ OmniFetchFails \/ OmniReturn

SpecOmni == InitOmni /\ [][NextOmni]_vars

-----------------------------------------------------------------------------
(* download_magnetogram_adapt, web.py *)

\* The literals of the function, as strs
StrAdapt4 == <<"a", "d", "a", "p", "t", "4">>
StrGz == <<".", "g", "z">>
Star == <<"*">>

\* time.hour//2*2, line 342
EvenHour(hour) == (hour \div 2) * 2

\* file_pattern, lines 338-342
file_pattern(map_id, time) ==
    StrAdapt4 \o map_id \o <<"3">> \o Star
        \o zfill(str(time.year), 4) \o zfill(str(time.month), 2)
        \o zfill(str(time.day), 2) \o zfill(str(EvenHour(time.hour)), 2) \o Star

\* The match of a name against a pattern in which '*' stands for any run of
\* characters, as the server does it for ftp.nlst
RECURSIVE Glob(_, _)
Glob(pattern, name) ==
    IF pattern = <<>> THEN name = <<>>
    ELSE IF Head(pattern) = "*"
    THEN Glob(Tail(pattern), name) \/ (name # <<>> /\ Glob(pattern, Tail(name)))
    ELSE name # <<>> /\ Head(name) = Head(pattern) /\ Glob(Tail(pattern), Tail(name))

\* sub in s at position k
At(s, sub, k) == k + Len(sub) - 1 <= Len(s) /\ SubSeq(s, k, k + Len(sub) - 1) = sub

\* '.gz' in filename, lines 365 and 377
Contains(s, sub) == \E k \in 1..Len(s) : At(s, sub, k)

\* A variant that leaves the name as it is.
RemoveNone(s, sub) == s

\* filename.replace('.gz', ''), lines 366 and 378: every occurrence removed
RECURSIVE Remove(_, _)
Remove(s, sub) ==
    IF s = <<>> THEN <<>>
    ELSE IF At(s, sub, 1) THEN Remove(SubSeq(s, Len(sub) + 1, Len(s)), sub)
    ELSE <<Head(s)>> \o Remove(Tail(s), sub)

\* A file of the server: adapt4<id>3_<yyyymmddhh>00.fts, packed or not
AdaptName(id, time, hour, gz) ==
    StrAdapt4 \o id \o <<"3", "_">>
        \o zfill(str(time.year), 4) \o zfill(str(time.month), 2)
        \o zfill(str(time.day), 2) \o zfill(str(hour), 2)
        \o <<"0", "0", ".", "f", "t", "s">> \o (IF gz THEN StrGz ELSE <<>>)

\* The day of the maps
AdaptDay == datetime(2016, 2, 3, 0, 0)

\* The files the year directory may hold, in the order the server lists them
Listing ==
    << AdaptName(<<"0">>, AdaptDay, 2, FALSE), AdaptName(<<"0">>, AdaptDay, 2, TRUE),
       AdaptName(<<"0">>, AdaptDay, 4, FALSE), AdaptName(<<"0">>, AdaptDay, 4, TRUE),
       AdaptName(<<"1">>, AdaptDay, 2, FALSE), AdaptName(<<"1">>, AdaptDay, 2, TRUE),
       AdaptName(<<"1">>, AdaptDay, 4, FALSE), AdaptName(<<"1">>, AdaptDay, 4, TRUE) >>

\* ftp.nlst(file_pattern): the names of the directory that match
nlst(server, pattern) ==
    SelectSeq(Listing, LAMBDA name : name \in server.names /\ Glob(pattern, name))

\* Lines 311-349: the map type, the year directory, the pattern, the listing
AdaptStart ==
    /\ a_pc = "call"
    /\ IF a_map_type \notin {"fixed", "central"}
       THEN /\ a_raised' = "ValueError"
            /\ a_pc' = "raised"
            /\ UNCHANGED a_filenames
       ELSE IF ~a_server.dir
       THEN /\ a_raised' = "NotADirectoryError"
            /\ a_pc' = "raised"
            /\ UNCHANGED a_filenames
       ELSE LET map_id == IF a_map_type = "fixed" THEN <<"0">> ELSE <<"1">>
                filenames == nlst(a_server, file_pattern(map_id, a_time))
            IN  /\ a_filenames' = filenames
                /\ IF Len(filenames) < 1
                   THEN a_raised' = "FileNotFoundError" /\ a_pc' = "raised"
                   ELSE a_pc' = "files" /\ UNCHANGED a_raised
    /\ UNCHANGED <<a_time, a_map_type, a_server, a_idx, a_local, a_ret>>
    /\ UNCHANGED notAdapt

\* Lines 351-369 for the next file, retrieved: the local file is written,
\* and unpacked under the name without '.gz' when the name holds '.gz'
AdaptFile ==
    /\ a_pc = "files"
    /\ a_idx < Len(a_filenames)
    /\ LET filename == a_filenames[a_idx + 1]
           got == (filename :> "retrieved") @@ a_local
       IN  a_local' = IF Contains(filename, StrGz)
                      THEN (Remove(filename, StrGz) :> "unpacked") @@ got
                      ELSE got
    /\ a_idx' = a_idx + 1
    /\ UNCHANGED <<a_time, a_map_type, a_server, a_filenames, a_ret, a_raised, a_pc>>
    /\ UNCHANGED notAdapt

\* Lines 356-362 for the next file when ftp.retrbinary fails: the local file
\* was opened for writing and is left empty
AdaptFileFails ==
    /\ a_pc = "files"
    /\ a_idx < Len(a_filenames)
    /\ a_local' = (a_filenames[a_idx + 1] :> "empty") @@ a_local
    /\ a_raised' = "FileNotFoundError"
    /\ a_pc' = "raised"
    /\ UNCHANGED <<a_time, a_map_type, a_server, a_filenames, a_idx, a_ret>>
    /\ UNCHANGED notAdapt

\* Lines 371-379: the names are returned, '.gz' removed
AdaptReturn ==
    /\ a_pc = "files"
    /\ a_idx = Len(a_filenames)
    /\ a_ret' = [k \in 1..Len(a_filenames) |->
                    IF Contains(a_filenames[k], StrGz)
                    THEN Remove(a_filenames[k], StrGz) ELSE a_filenames[k]]
    /\ a_pc' = "returned"
    /\ UNCHANGED <<a_time, a_map_type, a_server, a_filenames, a_idx, a_local, a_raised>>
    /\ UNCHANGED notAdapt

InitAdapt ==
    /\ \E hour \in {2, 3, 4} : a_time = [AdaptDay EXCEPT !.hour = hour, !.minute = 1]
    /\ a_map_type \in {"fixed", "central", "synoptic"}
    /\ \/ a_server = [dir |-> FALSE, names |-> {}]
       \/ \E names \in SUBSET {Listing[k] : k \in 1..Len(Listing)} :
              a_server = [dir |-> TRUE, names |-> names]
    /\ a_filenames = <<>>
    /\ a_idx = 0
    /\ a_local = <<>>
    /\ a_ret = <<>>
    /\ a_raised = ""
    /\ a_pc = "call"
    /\ CleanIdle
    /\ CsvIdle
    /\ CliIdle
    /\ PrmIdle
    /\ ParIdle
    /\ ToolsIdle
    /\ OmniIdle

NextAdapt == AdaptStart \/ AdaptFile \/ AdaptFileFails \/ AdaptReturn

SpecAdapt == InitAdapt /\ [][NextAdapt]_vars

-----------------------------------------------------------------------------
(* Properties of clean *)

Returned == pc = "done"

Result == heap[ret]

Valid(x) == ~IsSentinel(x)

\* C1: for a column of two or more samples, no element of the returned
\* sequence equals one of the four fill values, index 0 included.
C1_NoSentinelSurvives ==
    (Returned /\ size(C) >= 2) => \A i \in DOMAIN Result : ~IsSentinel(Result[i])

\* The column starts with k >= 1 fill values followed by a measured value.
LeadingRun(k) ==
    /\ k \in 1..(size(C) - 1)
    /\ \A i \in 0..(k - 1) : IsSentinel(C[i])
    /\ Valid(C[k])

\* C2: a leading run of k fill values is back-filled with the first
\* measured value that follows it.
C2_LeadingBackFill ==
    Returned =>
        \A k \in 1..(size(C) - 1) :
            LeadingRun(k) => \A i \in 0..(k - 1) : Result[i] = C[k]

AllBad == \A i \in DOMAIN C : IsSentinel(C[i])

\* C3: on a column of fill values only, clean ends by signalling an error
\* that is not an index fault; it does not return.
C3_AllBadSignalsError ==
    (size(C) >= 2 /\ AllBad /\ pc \in {"done", "raised"}) =>
        (pc = "raised" /\ raised # "IndexError")

\* Indices i0+1..i1-1 hold a maximal run of fill values between the measured
\* samples at i0 and i1.
InteriorRun(i0, i1) ==
    /\ i0 + 1 < i1
    /\ Valid(C[i0])
    /\ Valid(C[i1])
    /\ \A j \in (i0 + 1)..(i1 - 1) : IsSentinel(C[j])

\* C4: every interior run is replaced by the straight line between its own
\* two anchors: Result[i0+k] = v0 + k*(v1-v0)/(i1-i0) for k = 0..(i1-i0).
C4_InteriorInterpolation ==
    Returned =>
        \A i0, i1 \in DOMAIN C :
            InteriorRun(i0, i1) =>
                \A k \in 0..(i1 - i0) :
                    Result[i0 + k] =
                        Add(C[i0], DivInt(MulInt(k, Sub(C[i1], C[i0])), i1 - i0))

\* clean returned on a column with two interior runs, the first one between
\* anchors of different values.
C4_Witness ==
    /\ Returned
    /\ \E i0, i1, j0, j1 \in DOMAIN C :
            /\ InteriorRun(i0, i1)
            /\ InteriorRun(j0, j1)
            /\ i1 <= j0
            /\ C[i0] # C[i1]

\* The column ends with a run of fill values that starts right after the
\* measured sample at j.
TrailingRun(j) ==
    /\ j < size(C) - 1
    /\ Valid(C[j])
    /\ \A i \in (j + 1)..(size(C) - 1) : IsSentinel(C[i])

\* C5: a trailing run of fill values, of any length, is filled with the
\* measured value that precedes it.
C5_TrailingHold ==
    Returned =>
        \A j \in DOMAIN C :
            TrailingRun(j) => \A i \in (j + 1)..(size(C) - 1) : Result[i] = C[j]

\* clean returned on a column that ends with a single fill value after a
\* repaired interior run.
C5_Witness ==
    /\ Returned
    /\ \E j \in DOMAIN C : TrailingRun(j) /\ j = size(C) - 2
    /\ \E i0, i1 \in DOMAIN C : InteriorRun(i0, i1)

\* C15: the sequence clean returns has the length, and the indices, of the
\* column it was given.
C15_LengthPreserved ==
    Returned => (size(Result) = size(C) /\ DOMAIN Result = DOMAIN C)

\* clean returned on a column that starts with a fill value and holds an
\* interior run and a trailing run.
C15_Witness ==
    /\ Returned
    /\ IsSentinel(C[0])
    /\ \E i0, i1 \in DOMAIN C : InteriorRun(i0, i1)
    /\ \E j \in DOMAIN C : TrailingRun(j)

\* C27: for a column of two or more samples, every index that held a value
\* other than a fill value holds the same value in the sequence clean returns.
C27_ValidSamplesKept ==
    (Returned /\ size(C) >= 2) =>
        \A i \in DOMAIN C : Valid(C[i]) => (i \in DOMAIN Result /\ Result[i] = C[i])

\* clean returned a column in which a valid sample lies between two runs of
\* fill values that were both repaired.
C27_Witness ==
    /\ Returned
    /\ \E i \in DOMAIN C :
          /\ i - 1 \in DOMAIN C /\ i + 1 \in DOMAIN C
          /\ Valid(C[i]) /\ IsSentinel(C[i - 1]) /\ IsSentinel(C[i + 1])
          /\ Valid(Result[i - 1]) /\ Valid(Result[i + 1])

\* C6 as stated: clean returns a new sequence and the caller's array still
\* holds, at every index, the value it had before the call.
C6_ArgumentUntouched ==
    Returned => (ret # CallerRef /\ heap[CallerRef] = C)

\* C6 as amended: clean repairs the caller's array in place and returns that
\* same array; no other array exists, and every element that was not a fill
\* value still has the value it had before the call.
C6_InPlace ==
    Returned =>
        /\ ret = CallerRef
        /\ DOMAIN heap = {CallerRef}
        /\ \A i \in DOMAIN C : Valid(C[i]) => heap[CallerRef][i] = C[i]

\* clean returned after changing the caller's array.
C6_Witness == Returned /\ heap[CallerRef] # C

-----------------------------------------------------------------------------
(* Properties of read_omni_csv and of coarse filtering *)

CsvReturned == rpc = "returned"

\* The column entered coarse filtering with two or more samples, all valid.
FullColumn(col) == size(col) >= 2 /\ Count(col) = size(col)

\* Sample i lies more than c standard deviations away from the mean of its
\* column, on either side: |x - sum(x)/n| > c*sqrt(VarNum/(n(n-1))).
BeyondSigma(col, i, c) ==
    CmpRoot(Abs(Count(col) * Scaled(col)[i] - SumVal(col)), c,
            Count(col) * VarNum(col), Count(col) - 1) = 1

\* The absolute value of sample i exceeds mean(|x|) + c*std(x).
ExceedsThreshold(col, i, c) ==
    CmpRoot(Count(col) * Abs(Scaled(col)[i]) - SumAbs(col), c,
            Count(col) * VarNum(col), Count(col) - 1) = 1

\* C7: every cell of the table read_omni_csv returns is a finite number,
\* for every table of finite cells and every combination of the options.
C7_NoMissingValues ==
    CsvReturned => \A f \in DOMAIN out : \A i \in DOMAIN out[f] : ~IsNaN(out[f][i])

\* C8: with coarseness 3, a column none of whose values lies beyond three
\* standard deviations comes out of filtering and fill equal to what went in.
C8_NoOutlierNoChange ==
    (CsvReturned /\ filtering /\ coarseness = 3) =>
        \A f \in DOMAIN before :
            (/\ FullColumn(before[f])
             /\ \A i \in DOMAIN before[f] : ~BeyondSigma(before[f], i, 3))
                => out[f] = before[f]

\* C9: coarse filtering removes exactly the samples that lie more than
\* `coarseness` standard deviations away from the column mean, on either side.
C9_RemovedIffBeyondSigma ==
    (rpc = "filtered" /\ filtering) =>
        \A f \in DOMAIN before :
            FullColumn(before[f]) =>
                \A i \in DOMAIN before[f] :
                    IsNaN(frame[f][i]) <=> BeyondSigma(before[f], i, coarseness)

\* C10: coarse filtering marks a sample missing if and only if its absolute
\* value is strictly greater than mean(|x|) + coarseness*std(x); a sample
\* equal to the threshold stays.
C10_MarkedIffExceeds ==
    (rpc = "filtered" /\ filtering) =>
        \A f \in DOMAIN before :
            FullColumn(before[f]) =>
                \A i \in DOMAIN before[f] :
                    IsNaN(frame[f][i]) <=> ExceedsThreshold(before[f], i, coarseness)

\* The bound of each field as documented: |B| < 80, density < 500,
\* |V| < 2000 for the three velocity components, T < 1e7.
DocumentedBound(f) ==
    CASE f \in {"Bx [nT]", "By [nT]", "Bz [nT]"} -> 80
      [] f = "Rho [n/cc]" -> 500
      [] f \in {"Vx [km/s]", "Vy [km/s]", "Vz [km/s]"} -> 2000
      [] f = "T [K]" -> 10000000

\* The bounds the classification follows: as documented, but 1000 for Vy and Vz.
ComponentBound(f) ==
    IF f \in {"Vy [km/s]", "Vz [km/s]"} THEN 1000 ELSE DocumentedBound(f)

\* x is strictly below the bound b of field f: in magnitude for the magnetic
\* field and the velocity, in value for density and temperature.
StrictlyBelow(f, x, b) ==
    IF f \in {"Rho [n/cc]", "T [K]"} THEN x.n < b * x.d ELSE Abs(x.n) < b * x.d

\* C11 as stated: with clean enabled a sample is classified bad if and only
\* if it is not strictly below the documented bound of its field.
C11_DocumentedBounds ==
    (rpc = "cleaned" /\ kw_clean) =>
        \A f \in DOMAIN csv : \A i \in DOMAIN csv[f] :
            IsNaN(frame[f][i]) <=> ~StrictlyBelow(f, csv[f][i], DocumentedBound(f))

\* C11 as amended: the same with the bound 1000 km/s for Vy and Vz.
C11_ComponentBounds ==
    (rpc = "cleaned" /\ kw_clean) =>
        \A f \in DOMAIN csv : \A i \in DOMAIN csv[f] :
            IsNaN(frame[f][i]) <=> ~StrictlyBelow(f, csv[f][i], ComponentBound(f))

\* Cleaning ran on a Vy column that holds a sample equal to its bound, which
\* was dropped, and a sample just below it, which was kept.
C11_Witness ==
    /\ rpc = "cleaned"
    /\ kw_clean
    /\ \E i, j \in DOMAIN csv["Vy [km/s]"] :
            /\ csv["Vy [km/s]"][i] = Rat(1000) /\ IsNaN(frame["Vy [km/s]"][i])
            /\ csv["Vy [km/s]"][j] = Rat(-999) /\ frame["Vy [km/s]"][j] = Rat(-999)

Rows(tab) == size(tab["Bx [nT]"])

\* C12: a call with coarseness <= 0 is rejected before any column is scanned
\* or modified, and returns no table.
C12_NonPositiveCoarsenessRejected ==
    (filtering /\ coarseness <= 0) => (frame = csv /\ rpc # "returned")

\* C13: a table of fewer than two samples is not returned by read_omni_csv;
\* the call ends with an error.
C13_DegenerateSeriesRejected ==
    (rpc # "idle" /\ Rows(csv) < 2) => rpc # "returned"

\* The table that holds column g of tab alone.
Only(tab, g) == [x \in {g} |-> tab[g]]

\* C16: at every stage, what a column becomes (which of its samples are
\* classified bad, which are flagged, and the values it is filled with) is
\* what it becomes when that stage runs on a table that holds the column
\* alone: no other column has a part in it.
C16_ColumnIndependence ==
    \A g \in DOMAIN csv :
        /\ rpc = "cleaned" =>
                frame[g] = (IF kw_clean THEN CleanBadData(Only(csv, g)) ELSE Only(csv, g))[g]
        /\ rpc = "filtered" =>
                frame[g] = (IF filtering THEN coarse_filtering(Only(before, g), coarseness)
                            ELSE Only(before, g))[g]
        /\ rpc = "returned" => out[g] = FillAll(Only(frame, g))[g]

\* read_omni_csv returned after cleaning and filtering a table in which one
\* column lost samples in both stages while another column lost none.
C16_Witness ==
    /\ rpc = "returned"
    /\ kw_clean
    /\ filtering
    /\ \E f, g \in DOMAIN csv :
            /\ f # g
            /\ \E i \in DOMAIN csv[f] : ~KeptByClean(f, csv[f][i])
            /\ \E i \in DOMAIN csv[f] : ~IsNaN(before[f][i]) /\ IsNaN(frame[f][i])
            /\ frame[g] = csv[g]
            /\ Rows(csv) >= 2

-----------------------------------------------------------------------------
(* Properties of cleanomnidata.py *)

\* C14: when the program ends with a nonzero status, the output file is as
\* it was when the program started: neither created nor emptied.
C14_NoOutputOnFailure ==
    (cli_pc = "exit" /\ exit_status # 0) => disk = disk0

-----------------------------------------------------------------------------
(* Properties of read_command and replace_command *)

ReadReturned == p_pc = "read" /\ p_raised = ""

\* The line of the first occurrence of the command in the file
FirstLineOf(command) ==
    CHOOSE i \in 1..Len(pfile) :
        /\ get_command(pfile[i]) = command
        /\ \A j \in 1..(i - 1) : get_command(pfile[j]) # command

\* The values from line i on: the first word of each non-blank line up to,
\* not including, the next line whose first word starts with '#'
RECURSIVE ValuesFrom(_)
ValuesFrom(i) ==
    IF i > Len(pfile) \/ get_command(pfile[i]) # None THEN <<>>
    ELSE IF pfile[i] = <<>> THEN ValuesFrom(i + 1)
    ELSE <<pfile[i][1]>> \o ValuesFrom(i + 1)

\* C18: without num_of_values, read_command returns the command followed by
\* the parameter values of that command and nothing else, whatever the file.
C18_CommandThenItsValues ==
    (ReadReturned /\ p_kwargs = <<>>) =>
        /\ p_ret[1] = p_command
        /\ Tail(p_ret) = ValuesFrom(FirstLineOf(p_command) + 1)

\* C19: with num_of_values = n >= 0 the list read_command returns has at
\* most n + 1 elements.
C19_AtMostNValues ==
    (ReadReturned /\ "num_of_values" \in DOMAIN p_kwargs) =>
        Len(p_ret) <= p_kwargs.num_of_values + 1

\* The lines i of the input file that carry a command that is a key
KeyLines == {i \in 1..Len(pfile) : get_command(pfile[i]) \in DOMAIN p_parameters}

\* Line j is the k-th line after key line i, k within the values given
Covers(i, j) == i < j /\ j - i <= Len(p_parameters[get_command(pfile[i])])

\* C20: replace_command returns as many lines as the file has; a line that
\* is the k-th after a line whose command is a key is the k-th value given,
\* every command line of the file and every other line is as it was.
C20_OnlyValuesReplaced ==
    p_pc = "replaced" =>
        /\ p_raised = ""
        /\ Len(p_ret) = Len(pfile)
        /\ \A j \in 1..Len(pfile) :
              IF get_command(pfile[j]) # None
              THEN p_ret[j] = pfile[j]
              ELSE IF \E i \in KeyLines : Covers(i, j)
              THEN \E i \in KeyLines :
                      /\ Covers(i, j)
                      /\ p_ret[j] = make_line(p_parameters[get_command(pfile[i])][j - i])
              ELSE p_ret[j] = pfile[j]

-----------------------------------------------------------------------------
(* Properties of two calls of clean side by side *)

Ended(p) == par_pc[p] \in {"done", "raised"}

\* What call p ends with when it runs alone on its column
AloneRaises(p) == size(par_in[p]) < 2

\* Both calls have ended, and each column is what its call leaves when the
\* calls run one after the other.
SameAsSequential ==
    (\A p \in Calls : Ended(p)) =>
        \A p \in Calls :
            IF AloneRaises(p)
            THEN par_pc[p] = "raised" /\ par_heap[ColumnOf(p)] = par_in[p]
            ELSE /\ par_pc[p] = "done"
                 /\ par_ret[p] = ColumnOf(p)
                 /\ par_heap[ColumnOf(p)] = clean(par_in[p])

\* A step leaves the column and the locals of the call that did not take it
\* as they were.
OwnStateOnly ==
    \A p \in Calls :
        par_last' # p =>
            /\ par_heap'[ColumnOf(p)] = par_heap[ColumnOf(p)]
            /\ par_frame'[p] = par_frame[p]

\* C17: under every interleaving of the loop steps of two calls of clean on
\* two columns, each column ends as it does when the calls run one after the
\* other, and no step touches the column or the locals of the other call.
C17_Interleaving == []SameAsSequential /\ [][OwnStateOnly]_vars

\* Both calls returned after steps taken while the other was inside its
\* loop, and each repaired its column.
C17_Witness ==
    /\ \A p \in Calls : par_pc[p] = "done" /\ par_heap[ColumnOf(p)] # par_in[p]
    /\ par_mixed

-----------------------------------------------------------------------------
(* Properties of limit_growth, limit_changes and interp_nans *)

ToolDone(fn) == t_pc = "done" /\ t_call.fn = fn

OneD(arr) == Len(arr.shape) = 1

\* The vector with only the `change` limits applied: each element brought
\* within change[0]..change[1] of the element before it in the result
RECURSIVE Limited(_, _, _)
Limited(d, i, change) ==
    IF i \notin DOMAIN d THEN d
    ELSE LET lo == FAdd(d[i - 1], change[1])
             hi == FAdd(d[i - 1], change[2])
         IN  Limited([d EXCEPT ![i] = IF Less(d[i], lo) THEN lo
                                      ELSE IF Less(hi, d[i]) THEN hi ELSE d[i]],
                     i + 1, change)

\* C21: limit_changes called without constrictor and without change2, on a
\* one-dimensional vector and a (negative, positive) change, does not raise
\* and returns the vector with the `change` limits applied.
C21_DefaultsApplyChangeOnly ==
    (ToolDone("limit_changes") /\ t_call.kw = <<>> /\ OneD(t_vector)
        /\ ~NotNegPos(t_call.change)) =>
        /\ t_raised = ""
        /\ t_ret = Array(t_vector.shape,
                         Limited(t_vector.data, t_call.look_ahead, t_call.change))

\* C22: limit_growth raises ValueError on every array that does not have
\* exactly one axis, and on no array that has one.
C22_ValueErrorIffNotOneD ==
    ToolDone("limit_growth") => (t_raised = "ValueError" <=> ~OneD(t_vector))

\* x <= y on floats
Leq(x, y) == ~IsNaN(x) /\ ~IsNaN(y) /\ ~Less(y, x)

DiffsWithin(d, change) ==
    \A i \in DOMAIN d :
        i - 1 \in DOMAIN d =>
            /\ Leq(FAdd(d[i - 1], change[1]), d[i])
            /\ Leq(d[i], FAdd(d[i - 1], change[2]))

\* C28: limit_changes without a constrictor returns a vector whose
\* differences all lie within the limits unchanged; and whenever only the
\* `change` limits were applied, an element that lies within the limits of
\* the result element before it keeps its value.
C28_WithinLimitsUnchanged ==
    (ToolDone("limit_changes") /\ OneD(t_vector) /\ ~NotNegPos(t_call.change)) =>
        /\ ("constrictor" \notin DOMAIN t_call.kw
                /\ DiffsWithin(t_vector.data, t_call.change)) =>
               (t_raised = "" /\ t_ret = t_vector)
        /\ (t_raised = "" /\ ~any(t_call.kw.constrictor)) =>
               \A i \in DOMAIN t_ret.data :
                   (i >= t_call.look_ahead
                    /\ Leq(FAdd(t_ret.data[i - 1], t_call.change[1]), t_vector.data[i])
                    /\ Leq(t_vector.data[i], FAdd(t_ret.data[i - 1], t_call.change[2])))
                       => t_ret.data[i] = t_vector.data[i]

-----------------------------------------------------------------------------
(* Properties of get_omni_data *)

\* The rows of the archive, month after month in the order of the files
RECURSIVE ArchiveFrom(_)
ArchiveFrom(k) ==
    IF k >= 12 * NumYears THEN <<>>
    ELSE (IF OnServer(FirstYear + (k \div 12), (k % 12) + 1)
          THEN ArchiveRows(FirstYear + (k \div 12), (k % 12) + 1) ELSE <<>>)
         \o ArchiveFrom(k + 1)

\* The rows of the archive stamped within o_from .. o_to, both ends included
WantedRows ==
    SelectSeq(ArchiveFrom(0),
              LAMBDA row : DtLeq(o_from, row.time) /\ DtLeq(row.time, o_to))

\* C25: the rows get_omni_data returns are the rows of the archive stamped
\* from time_from to time_to, both included, in the order of the archive;
\* a row stamped time_from, when there is one, comes first.
C25_RowsWithinBothEnds ==
    o_pc = "returned" =>
        /\ o_ret.times = [k \in 1..Len(WantedRows) |-> WantedRows[k].time]
        /\ Len(o_ret.col) = Len(o_ret.times)
        /\ (DtLeq(o_from, o_to)
                /\ \E k \in 1..Len(ArchiveFrom(0)) : ArchiveFrom(0)[k].time = o_from)
               => o_ret.times[1] = o_from

\* get_omni_data returned rows of more than one month, the first stamped
\* time_from and the last stamped time_to.
C25_Witness ==
    /\ o_pc = "returned"
    /\ Len(o_ret.times) > 4
    /\ o_ret.times[1] = o_from
    /\ o_ret.times[Len(o_ret.times)] = o_to

\* The count of months up to the month of t
MonthIndex(t) == 12 * t.year + t.month - 1

\* The suffixes of the months from the month of o_from to the month of o_to
WantedSuffixes ==
    [k \in 1..(MonthIndex(o_to) - MonthIndex(o_from) + 1) |->
        LET i == MonthIndex(o_from) + k - 1
        IN  str(i \div 12) \o zfill(str((i % 12) + 1), 2)]

\* C29: for time_from <= time_to, get_omni_data asks for the file of each
\* month from the month of time_from to the month of time_to, once each, in
\* this order; when a retrieval fails nothing is returned and no later
\* file is asked for.
C29_OneFetchPerMonth ==
    DtLeq(o_from, o_to) =>
        /\ o_pc = "returned" => o_fetched = WantedSuffixes
        /\ o_pc = "raised" =>
              /\ o_ret = <<>>
              /\ Len(o_fetched) <= Len(WantedSuffixes)
              /\ o_fetched = SubSeq(WantedSuffixes, 1, Len(o_fetched))
        /\ o_pc = "loop" => o_ret = <<>>

\* get_omni_data returned after asking for the files of December and
\* January of two years, from a day after the 25th to a day before it.
C29_Witness ==
    /\ o_pc = "returned"
    /\ o_from.year < o_to.year /\ o_from.month = 12 /\ o_to.month = 1
    /\ o_from.day > 25 /\ o_to.day < 25
    /\ Len(o_fetched) = 2

-----------------------------------------------------------------------------
(* Properties of download_magnetogram_adapt *)

\* The files of the server that carry the map type asked for and the day
\* and the even hour of a_time
MatchedFiles ==
    { name \in a_server.names :
        \E gz \in BOOLEAN :
            name = AdaptName(IF a_map_type = "fixed" THEN <<"0">> ELSE <<"1">>,
                             a_time, 2 * (a_time.hour \div 2), gz) }

EndsWithGz(name) == Len(name) >= 3 /\ SubSeq(name, Len(name) - 2, Len(name)) = StrGz

\* C26: when download_magnetogram_adapt returns, every file of the server
\* that matches the map type, the day and the even hour is in the download
\* directory, and every such '.gz' file also unpacked under the name
\* without '.gz'.
C26_MatchedFilesPresent ==
    a_pc = "returned" =>
        \A name \in MatchedFiles :
            /\ name \in DOMAIN a_local
            /\ a_local[name] # "empty"
            /\ EndsWithGz(name) =>
                  LET plain == SubSeq(name, 1, Len(name) - 3)
                  IN  plain \in DOMAIN a_local /\ a_local[plain] # "empty"

\* The call returned for an odd hour after retrieving a '.gz' file that the
\* server holds only packed.
C26_Witness ==
    /\ a_pc = "returned"
    /\ a_time.hour % 2 = 1
    /\ \E name \in MatchedFiles :
          EndsWithGz(name) /\ SubSeq(name, 1, Len(name) - 3) \notin a_server.names

====
